---- MODULE Spec2Model ----
(***************************************************************************)
(* A model of the YAML JSONPath engine: the lexer (pkg/yamlpath/lexer.go), *)
(* the filter parser, the path compiler and evaluator                      *)
(* (pkg/yamlpath/path.go), the filter evaluator, the comparator kernel     *)
(* (pkg/yamlpath/comparison.go) and the slice resolver.                    *)
(*                                                                         *)
(* Go strings are sequences of one-character strings.  Positions are the   *)
(* 0-based byte offsets of the source, so input[l.start:l.pos] is          *)
(* SubSeq(input, start + 1, pos).  Only ASCII input is modelled, so every  *)
(* rune has width 1 and the lexer's width field (used only by backup,      *)
(* directly after next) is folded into the scanning operators.             *)
(***************************************************************************)
EXTENDS Integers, Sequences, FiniteSets, TLC

VARIABLES
    input,      \* the path expression given to NewPath
    pc,         \* position of the client program: "start", "compiled", "found", ...
    compiled,   \* what NewPath returned: [outcome, path, err]
    doc,        \* the YAML node given to Find
    found,      \* what Find returned: [outcome, nodes]
    sliceArgs,  \* arguments of a call of slice: [index, length]
    sliceRes,   \* what slice returned: [err, slice]
    cmpArgs,    \* a comparison filter under evaluation: [op, lhs, rhs]
    cmpRes,     \* what the filter built by nodeToFilter returned
    parseArgs,  \* the lexemes given to newFilterNode
    parseRes,   \* what newFilterNode returned: [panic, tree]
    calls,      \* the calls of Find that goroutines make on the compiled path
    lexer       \* the lexer that nextLexeme is called on

vars == <<input, pc, compiled, doc, found, sliceArgs, sliceRes, cmpArgs, cmpRes, parseArgs,
          parseRes, calls, lexer>>

-----------------------------------------------------------------------------
(* Go string helpers (package strings / strconv), on sequences of chars.   *)

Digits == {"0", "1", "2", "3", "4", "5", "6", "7", "8", "9"}

DigitVal(c) ==
    CASE c = "0" -> 0 [] c = "1" -> 1 [] c = "2" -> 2 [] c = "3" -> 3
      [] c = "4" -> 4 [] c = "5" -> 5 [] c = "6" -> 6 [] c = "7" -> 7
      [] c = "8" -> 8 [] c = "9" -> 9

HasPrefix(s, p) == Len(s) >= Len(p) /\ SubSeq(s, 1, Len(p)) = p

HasSuffix(s, p) == Len(s) >= Len(p) /\ SubSeq(s, Len(s) - Len(p) + 1, Len(s)) = p

TrimPrefix(s, p) == IF HasPrefix(s, p) THEN SubSeq(s, Len(p) + 1, Len(s)) ELSE s

TrimSuffix(s, p) == IF HasSuffix(s, p) THEN SubSeq(s, 1, Len(s) - Len(p)) ELSE s

\* index (1-based) of the first occurrence of char c in s, 0 when absent
IndexOf(s, c) ==
    IF \E i \in 1..Len(s) : s[i] = c
    THEN CHOOSE i \in 1..Len(s) : s[i] = c /\ \A j \in 1..(i - 1) : s[j] # c
    ELSE 0

RECURSIVE Split(_, _)
\* strings.Split(s, sep) for a one-character separator
Split(s, c) ==
    LET i == IndexOf(s, c) IN
    IF i = 0 THEN <<s>>
    ELSE <<SubSeq(s, 1, i - 1)>> \o Split(SubSeq(s, i + 1, Len(s)), c)

\* strings.SplitN(s, sep, 2) for a one-character separator
SplitN2(s, c) ==
    LET i == IndexOf(s, c) IN
    IF i = 0 THEN <<s>>
    ELSE <<SubSeq(s, 1, i - 1), SubSeq(s, i + 1, Len(s))>>

RECURSIVE TrimSpace(_)
TrimSpace(s) ==
    IF s # <<>> /\ s[1] = " " THEN TrimSpace(Tail(s))
    ELSE IF s # <<>> /\ s[Len(s)] = " " THEN TrimSpace(SubSeq(s, 1, Len(s) - 1))
    ELSE s

RECURSIVE DigitsVal(_)
DigitsVal(s) ==
    IF s = <<>> THEN 0 ELSE 10 * DigitsVal(SubSeq(s, 1, Len(s) - 1)) + DigitVal(s[Len(s)])

AllDigits(s) == s # <<>> /\ \A i \in 1..Len(s) : s[i] \in Digits

\* strconv.Atoi: an optional sign and decimal digits.  The model's strings
\* are far shorter than 19 digits, so the range error never arises.
AtoiOk(s) ==
    IF s # <<>> /\ s[1] \in {"-", "+"} THEN AllDigits(Tail(s)) ELSE AllDigits(s)

Atoi(s) ==
    IF s[1] = "-" THEN 0 - DigitsVal(Tail(s))
    ELSE IF s[1] = "+" THEN DigitsVal(Tail(s))
    ELSE DigitsVal(s)

\* strconv.ParseFloat(s, 64) on the decimal forms [sign] digits [. digits]
\* with at least one digit (no exponent, hex, inf or nan forms are modelled).
FloatBody(s) == IF s # <<>> /\ s[1] \in {"-", "+"} THEN Tail(s) ELSE s

ParseFloatOk(s) ==
    LET b == FloatBody(s)
        d == IndexOf(b, ".")
        ip == IF d = 0 THEN b ELSE SubSeq(b, 1, d - 1)
        fp == IF d = 0 THEN <<>> ELSE SubSeq(b, d + 1, Len(b))
    IN  /\ \A i \in 1..Len(ip) : ip[i] \in Digits
        /\ \A i \in 1..Len(fp) : fp[i] \in Digits
        /\ Len(ip) + Len(fp) >= 1

\* number of fractional digits kept: values are held as integers scaled by
\* 10^FracDigits (the model's inputs carry at most FracDigits of them).
FracDigits == 2

RECURSIVE Pow10(_)
Pow10(n) == IF n = 0 THEN 1 ELSE 10 * Pow10(n - 1)

ParseFloat(s) ==
    LET b == FloatBody(s)
        d == IndexOf(b, ".")
        ip == IF d = 0 THEN b ELSE SubSeq(b, 1, d - 1)
        fp0 == IF d = 0 THEN <<>> ELSE SubSeq(b, d + 1, Len(b))
        fp == IF Len(fp0) > FracDigits THEN SubSeq(fp0, 1, FracDigits) ELSE fp0
        mag == DigitsVal(ip) * Pow10(FracDigits) + DigitsVal(fp) * Pow10(FracDigits - Len(fp))
    IN  IF s # <<>> /\ s[1] = "-" THEN 0 - mag ELSE mag

-----------------------------------------------------------------------------
(* The lexer (pkg/yamlpath/lexer.go).  A lexeme is [typ, val]; typ is the  *)
(* name of the lexemeType constant without its "lexeme" prefix.  A state   *)
(* function is an operator from the lexer record to the lexer record whose *)
(* state field names the state function it returned ("nil" for nil).       *)

Lexeme(t, v) == [typ |-> t, val |-> v]

\* capacity of the items channel made by lex
ChanCap == 2

\* the rune returned by next and peek at the end of the input
eof == "eof"

lex(in) ==
    [input |-> in, start |-> 0, pos |-> 0, state |-> "lexPath", stack |-> <<>>,
     items |-> <<>>, lastEmittedStart |-> 0, lastEmittedLexemeType |-> "EOF",
     blocked |-> FALSE]

push(l, st) == [l EXCEPT !.stack = Append(@, st)]

emptyStack(l) == Len(l.stack) = 0

\* a send on the items channel: with ChanCap lexemes buffered and the only
\* receiver (nextLexeme) being the caller of the state function, the send
\* never completes; blocked records that the goroutine is stuck in it.
send(l, lx) ==
    IF l.blocked THEN l
    ELSE IF Len(l.items) >= ChanCap THEN [l EXCEPT !.blocked = TRUE]
    ELSE [l EXCEPT !.items = Append(@, lx)]

value(l) == SubSeq(l.input, l.start + 1, l.pos)

context(l) == SubSeq(l.input, l.lastEmittedStart + 1, l.pos)

empty(l) == l.pos >= Len(l.input)

peek(l) == IF l.pos >= Len(l.input) THEN eof ELSE l.input[l.pos + 1]

nextChar(l) == IF l.pos >= Len(l.input) THEN <<>> ELSE <<l.input[l.pos + 1]>>

hasPrefix(l, p) ==
    /\ l.pos + Len(p) <= Len(l.input)
    /\ SubSeq(l.input, l.pos + 1, l.pos + Len(p)) = p

\* n calls of next
next(l, n) ==
    [l EXCEPT !.pos = IF l.pos + n > Len(l.input) THEN Len(l.input) ELSE l.pos + n]

emit(l, typ) ==
    LET s == send(l, Lexeme(typ, value(l))) IN
    IF s.blocked THEN s
    ELSE [s EXCEPT !.lastEmittedStart = l.start, !.start = l.pos,
                   !.lastEmittedLexemeType = typ]

emitSynthetic(l, typ, val) == send(l, Lexeme(typ, val))

\* errorf that sends the Error lexeme and leaves the state function in place
errorfWithoutStop(l, msg) == send(l, Lexeme("Error", msg))

\* errorf: the message is the format text followed by its rendered arguments
errorf(l, msg) == [send(l, Lexeme("Error", msg)) EXCEPT !.state = "nil"]

pop(l) ==
    IF Len(l.stack) = 0 THEN errorf(l, <<"lexer stack underflow">>)
    ELSE [l EXCEPT !.state = l.stack[Len(l.stack)],
                   !.stack = SubSeq(l.stack, 1, Len(l.stack) - 1)]

goto(l, st) == [l EXCEPT !.state = st]

\* the position reached by calling next until it returns a rune of stops or
\* eof, and then backup
scanUntil(l, stops) ==
    CHOOSE p \in l.pos..Len(l.input) :
        /\ p = Len(l.input) \/ l.input[p + 1] \in stops
        /\ \A q \in l.pos..(p - 1) : l.input[q + 1] \notin stops

\* the position of the first occurrence of p at or after l.pos, -1 if none
findPrefix(l, p) ==
    LET hits == {q \in l.pos..(Len(l.input) - Len(p)) :
                    SubSeq(l.input, q + 1, q + Len(p)) = p}
    IN  IF hits = {} THEN 0 - 1
        ELSE CHOOSE q \in hits : \A r \in hits : q <= r

stripWhitespace(l) ==
    LET p == CHOOSE p \in l.pos..Len(l.input) :
                 /\ p = Len(l.input) \/ l.input[p + 1] # " "
                 /\ \A q \in l.pos..(p - 1) : l.input[q + 1] = " "
    IN  [l EXCEPT !.pos = p, !.start = p]

\* the constant strings of the lexer
tok ==
    [root |-> <<"$">>,
     dot |-> <<".">>,
     leftBracket |-> <<"[">>,
     rightBracket |-> <<"]">>,
     bracketQuote |-> <<"[", "'">>,
     quoteBracket |-> <<"'", "]">>,
     bracketFilter |-> <<"[", "?", "(">>,
     filterBracket |-> <<")", "]">>,
     filterOpenBracket |-> <<"(">>,
     filterCloseBracket |-> <<")">>,
     filterNot |-> <<"!">>,
     filterAt |-> <<"@">>,
     filterConjunction |-> <<"&", "&">>,
     filterDisjunction |-> <<"|", "|">>,
     filterEquality |-> <<"=", "=">>,
     filterInequality |-> <<"!", "=">>,
     filterGreaterThan |-> <<">">>,
     filterGreaterThanOrEqual |-> <<">", "=">>,
     filterLessThan |-> <<"<">>,
     filterLessThanOrEqual |-> <<"<", "=">>,
     filterMatchesRegularExpression |-> <<"=", "~">>,
     filterStringLiteralDelimiter |-> <<"'">>,
     filterRegularExpressionLiteralDelimiter |-> <<"/">>,
     filterRegularExpressionEscape |-> <<"\\">>,
     recursiveDescent |-> <<".", ".">>]

\* the runes that end a dot child name and return to the filter lexer
filterDelimiters == {" ", "&", "|", "=", "!", ">", "<"}

validateArrayIndex(l) ==
    LET subscript == value(l)
        index == TrimSuffix(TrimPrefix(subscript, tok.leftBracket), tok.rightBracket)
        sliceParms == Split(index, ":")
    IN  IF index = <<"*">> THEN [ok |-> TRUE, l |-> l]
        ELSE IF Len(sliceParms) > 3
        THEN [ok |-> FALSE,
              l |-> errorf(l, <<"invalid array index, too many colons: %s">> \o subscript)]
        ELSE IF \E i \in 1..Len(sliceParms) :
                    sliceParms[i] # <<>> /\ ~AtoiOk(sliceParms[i])
        THEN [ok |-> FALSE,
              l |-> errorf(l, <<"invalid array index containing non-integer value: %s">>
                                  \o subscript)]
        ELSE [ok |-> TRUE, l |-> l]

\* the array subscript that may follow a child: [ret |-> the state function
\* returns here, l |-> the lexer]
lexSubscript(l) ==
    IF hasPrefix(l, tok.leftBracket) /\ ~hasPrefix(l, tok.bracketQuote) /\ ~hasPrefix(l, tok.bracketFilter)
    THEN LET l1 == next(l, 1)
             q == findPrefix(l1, tok.rightBracket)
         IN  IF q < 0
             THEN [ret |-> TRUE,
                   l |-> errorf([l1 EXCEPT !.pos = Len(l.input)], <<"unmatched [">>)]
             ELSE IF q = l1.pos
             THEN [ret |-> TRUE,
                   l |-> errorf([l1 EXCEPT !.pos = q + 1], <<"subscript missing from []">>)]
             ELSE LET v == validateArrayIndex([l1 EXCEPT !.pos = q + 1]) IN
                  IF ~v.ok THEN [ret |-> TRUE, l |-> v.l]
                  ELSE [ret |-> FALSE, l |-> emit(v.l, "ArraySubscript")]
    ELSE [ret |-> FALSE, l |-> l]

\* lexPath without the implicit root: nothing is emitted before the first step
lexPathNoImplicitRoot(l) ==
    IF empty(l) THEN goto(emit(emit(l, "Identity"), "EOF"), "nil")
    ELSE IF hasPrefix(l, tok.root) THEN goto(l, "lexRoot")
    ELSE goto(l, "lexSubPath")

lexPath(l) ==
    IF empty(l) THEN goto(emit(emit(l, "Identity"), "EOF"), "nil")
    ELSE IF hasPrefix(l, tok.root) THEN goto(l, "lexRoot")
    ELSE goto(emitSynthetic(l, "Root", tok.root), "lexSubPath")

lexRoot(l) == goto(emit(next(l, Len(tok.root)), "Root"), "lexSubPath")

lexSubPath(l) ==
    IF hasPrefix(l, <<")">>) THEN pop(l)
    ELSE IF empty(l)
    THEN IF ~emptyStack(l) THEN pop(l)
         ELSE goto(emit(emit(l, "Identity"), "EOF"), "nil")
    ELSE IF hasPrefix(l, tok.recursiveDescent)
    THEN LET l1 == next(l, 2)
             p == scanUntil(l1, {".", "["})
         IN  IF p = l1.pos THEN errorf(l1, <<"child name missing after ..">>)
             ELSE goto(emit([l1 EXCEPT !.pos = p], "RecursiveDescent"), "lexSubPath")
    ELSE IF hasPrefix(l, tok.dot)
    THEN LET l1 == next(l, 1)
             p == scanUntil(l1, {".", "[", ")"} \cup filterDelimiters)
         IN  IF p = l1.pos THEN errorf(l1, <<"child name missing after .">>)
             ELSE LET s == lexSubscript(emit([l1 EXCEPT !.pos = p], "DotChild")) IN
                  IF s.ret THEN s.l
                  ELSE IF peek(s.l) \in filterDelimiters
                  THEN IF emptyStack(s.l)
                       THEN errorf(s.l,
                                <<"invalid character %q at position %d in subpath, following %q">>
                                \o nextChar(s.l) \o <<ToString(s.l.pos)>> \o context(s.l))
                       ELSE pop(s.l)
                  ELSE goto(s.l, "lexSubPath")
    ELSE IF hasPrefix(l, tok.bracketQuote)
    THEN LET l1 == next(l, 2)
             q == findPrefix(l1, tok.quoteBracket)
         IN  IF q < 0
             THEN errorf([l1 EXCEPT !.pos = Len(l.input)], <<"unmatched ['">>)
             ELSE IF q = l1.pos
             THEN errorf([l1 EXCEPT !.pos = q + 2], <<"child name missing from ['']">>)
             ELSE LET s == lexSubscript(emit([l1 EXCEPT !.pos = q + 2], "BracketChild")) IN
                  IF s.ret THEN s.l ELSE goto(s.l, "lexSubPath")
    ELSE IF hasPrefix(l, tok.bracketFilter)
    THEN goto(push(emit(next(l, 3), "FilterBegin"), "lexEndBracketFilter"),
              "lexFilterExprInitial")
    ELSE errorf(l, <<"invalid path syntax at position %d, following %q">>
                       \o <<ToString(l.pos)>> \o context(l))

\* regexp.Compile on the sanitised body.  Only literal bodies (letters and
\* digits) are modelled; the model's inputs hold no other regular expression.
RegexChars == {"a", "b", "c", "x", "y"} \cup Digits

regexCompiles(body) == \A i \in 1..Len(body) : body[i] \in RegexChars

RECURSIVE ReplaceEscapedSlash(_)
\* strings.ReplaceAll(s, `\/`, `/`)
ReplaceEscapedSlash(s) ==
    IF Len(s) < 2 THEN s
    ELSE IF s[1] = "\\" /\ s[2] = "/"
    THEN <<"/">> \o ReplaceEscapedSlash(SubSeq(s, 3, Len(s)))
    ELSE <<s[1]>> \o ReplaceEscapedSlash(Tail(s))

sanitiseRegularExpressionLiteral(re) == ReplaceEscapedSlash(SubSeq(re, 2, Len(re) - 1))

\* [present, l]: the state function returns l.state when present
lexNumericLiteral(l, nextState) ==
    LET n == peek(l) IN
    IF n = "." \/ n = "-" \/ n \in Digits
    THEN LET l1 == next(l, 1)
             p == scanUntil(l1, {c \in {l.input[i] : i \in 1..Len(l.input)} :
                                    c # "." /\ c \notin Digits})
             l2 == [l1 EXCEPT !.pos = p]
             float == \E i \in 1..Len(value(l2)) : value(l2)[i] = "."
         IN  IF float
             THEN IF ~ParseFloatOk(value(l2))
                  THEN [present |-> TRUE,
                        l |-> errorf(l2, <<"invalid float literal %q: %s">> \o value(l2)
                                             \o <<"invalid syntax">>)]
                  ELSE [present |-> TRUE,
                        l |-> goto(emit(l2, "FilterFloatLiteral"), "lexFilterExpr")]
             ELSE IF ~AtoiOk(value(l2))
                  THEN [present |-> TRUE,
                        l |-> errorf(l2, <<"invalid integer literal %q: %s">> \o value(l2)
                                             \o <<"invalid syntax">>)]
                  ELSE [present |-> TRUE,
                        l |-> goto(emit(l2, "FilterIntegerLiteral"), "lexFilterExpr")]
    ELSE [present |-> FALSE, l |-> l]

lexStringLiteral(l, nextState) ==
    IF hasPrefix(l, tok.filterStringLiteralDelimiter)
    THEN LET q == findPrefix(next(l, 1), tok.filterStringLiteralDelimiter) IN
         IF q < 0
         THEN [present |-> TRUE,
               l |-> errorf([l EXCEPT !.pos = Len(l.input)],
                            <<"unmatched string delimiter \"'\" at position %d, following %q">>
                                \o <<ToString(l.pos)>> \o context(l))]
         ELSE [present |-> TRUE,
               l |-> goto(emit([l EXCEPT !.pos = q + 1], "FilterStringLiteral"), nextState)]
    ELSE [present |-> FALSE, l |-> l]

RECURSIVE regexEnd(_, _, _)
\* the loop of lexRegularExpressionLiteral entered with l.pos = p: the
\* position of the closing delimiter, or -1 when next returns eof first
regexEnd(s, p, escape) ==
    IF p >= Len(s) THEN 0 - 1
    ELSE LET up == IF p + 1 >= Len(s) THEN eof ELSE s[p + 2] IN
         IF ~escape /\ up = "/" THEN p + 1
         ELSE regexEnd(s, p + 1, ~escape /\ up = "\\")

lexRegularExpressionLiteral(l, nextState) ==
    IF ~hasPrefix(l, tok.filterRegularExpressionLiteralDelimiter)
    THEN errorf(l, <<"regular expression does not start with / at position %d, following %q">>
                       \o <<ToString(l.pos)>> \o context(l))
    ELSE LET q == regexEnd(l.input, l.pos, FALSE) IN
         IF q < 0
         THEN errorf([l EXCEPT !.pos = Len(l.input)],
                     <<"unmatched regular expression delimiter \"/\" at position %d, following %q">>
                         \o <<ToString(l.pos)>> \o context(l))
         ELSE LET l1 == [l EXCEPT !.pos = q + 1] IN
              IF ~regexCompiles(sanitiseRegularExpressionLiteral(value(l1)))
              THEN errorf(l1, <<"invalid regular expression position %d, following %q: %s">>
                                  \o <<ToString(l.pos)>> \o context(l)
                                  \o <<"error parsing regexp">>)
              ELSE goto(emit(l1, "FilterRegularExpressionLiteral"), nextState)

missingFirstOperand(l, op) ==
    errorf(l, <<"missing first operand for binary operator ">> \o op)

lexFilterExprInitial(l0) ==
    LET l == stripWhitespace(l0)
        num == lexNumericLiteral(l, "lexFilterExpr")
        str == lexStringLiteral(l, "lexFilterExpr")
    IN  IF num.present THEN num.l
        ELSE IF str.present THEN str.l
        ELSE IF hasPrefix(l, tok.filterOpenBracket)
        THEN goto(push(emit(next(l, 1), "FilterOpenBracket"), "lexFilterExpr"),
                  "lexFilterExprInitial")
        ELSE IF hasPrefix(l, tok.filterCloseBracket) /\ ~hasPrefix(l, tok.filterBracket)
        THEN pop(emit(next(l, 1), "FilterCloseBracket"))
        ELSE IF hasPrefix(l, tok.filterInequality) THEN missingFirstOperand(l, tok.filterInequality)
        ELSE IF hasPrefix(l, tok.filterNot)
        THEN goto(emit(next(l, 1), "FilterNot"), "lexFilterExprInitial")
        ELSE IF hasPrefix(l, tok.filterAt)
        THEN goto(push(emit(next(l, 1), "FilterAt"), "lexFilterExpr"), "lexSubPath")
        ELSE IF hasPrefix(l, tok.root)
        THEN goto(push(emit(next(l, 1), "Root"), "lexFilterExpr"), "lexSubPath")
        ELSE IF hasPrefix(l, tok.filterConjunction) THEN missingFirstOperand(l, tok.filterConjunction)
        ELSE IF hasPrefix(l, tok.filterDisjunction) THEN missingFirstOperand(l, tok.filterDisjunction)
        ELSE IF hasPrefix(l, tok.filterEquality) THEN missingFirstOperand(l, tok.filterEquality)
        ELSE IF hasPrefix(l, tok.filterGreaterThanOrEqual)
        THEN missingFirstOperand(l, tok.filterGreaterThanOrEqual)
        ELSE IF hasPrefix(l, tok.filterGreaterThan) THEN missingFirstOperand(l, tok.filterGreaterThan)
        ELSE IF hasPrefix(l, tok.filterLessThanOrEqual)
        THEN missingFirstOperand(l, tok.filterLessThanOrEqual)
        ELSE IF hasPrefix(l, tok.filterLessThan) THEN missingFirstOperand(l, tok.filterLessThan)
        ELSE pop(l)

\* lexOrdering without the two checks for a string literal
lexOrderingUnchecked(l, op, typ) ==
    goto(push(stripWhitespace(emit(next(l, Len(op)), typ)), "lexFilterExpr"), "lexFilterTerm")

\* the four ordering operators of lexFilterExpr: op is the operator text
lexOrdering(l, op, typ) ==
    LET msg == <<"strings cannot be compared using ">> \o op
                   \o <<" at position %d, following %q">>
    IN  IF HasPrefix(context(l), tok.filterStringLiteralDelimiter)
        THEN errorf(l, msg \o <<ToString(l.pos)>> \o context(l))
        ELSE LET l1 == stripWhitespace(emit(next(l, Len(op)), typ)) IN
             IF hasPrefix(l1, tok.filterStringLiteralDelimiter)
             THEN errorf(l1, msg \o <<ToString(l1.pos)>> \o context(l1))
             ELSE goto(push(l1, "lexFilterExpr"), "lexFilterTerm")

lexFilterExpr(l0) ==
    LET l == stripWhitespace(l0) IN
    IF empty(l)
    THEN errorf(l, <<"missing end of filter at position %d, following %q">>
                       \o <<ToString(l.pos)>> \o context(l))
    ELSE IF hasPrefix(l, tok.filterBracket) THEN pop(l)
    ELSE IF hasPrefix(l, tok.filterOpenBracket)
    THEN goto(push(emit(next(l, 1), "FilterOpenBracket"), "lexFilterExpr"),
              "lexFilterExprInitial")
    ELSE IF hasPrefix(l, tok.filterCloseBracket)
    THEN pop(emit(next(l, 1), "FilterCloseBracket"))
    ELSE IF hasPrefix(l, tok.filterAt)
    THEN goto(push(emit(next(l, 1), "FilterAt"), "lexFilterExpr"), "lexSubPath")
    ELSE IF hasPrefix(l, tok.filterConjunction)
    THEN goto(stripWhitespace(emit(next(l, 2), "FilterAnd")), "lexFilterExprInitial")
    ELSE IF hasPrefix(l, tok.filterDisjunction)
    THEN goto(stripWhitespace(emit(next(l, 2), "FilterOr")), "lexFilterExprInitial")
    ELSE IF hasPrefix(l, tok.filterEquality)
    THEN goto(push(emit(next(l, 2), "FilterEquality"), "lexFilterExpr"), "lexFilterTerm")
    ELSE IF hasPrefix(l, tok.filterInequality)
    THEN goto(push(emit(next(l, 2), "FilterInequality"), "lexFilterExpr"), "lexFilterTerm")
    ELSE IF hasPrefix(l, tok.filterGreaterThanOrEqual)
    THEN lexOrdering(l, tok.filterGreaterThanOrEqual, "FilterGreaterThanOrEqual")
    ELSE IF hasPrefix(l, tok.filterGreaterThan)
    THEN lexOrdering(l, tok.filterGreaterThan, "FilterGreaterThan")
    ELSE IF hasPrefix(l, tok.filterLessThanOrEqual)
    THEN lexOrdering(l, tok.filterLessThanOrEqual, "FilterLessThanOrEqual")
    ELSE IF hasPrefix(l, tok.filterLessThan)
    THEN lexOrdering(l, tok.filterLessThan, "FilterLessThan")
    ELSE IF hasPrefix(l, tok.filterMatchesRegularExpression)
    THEN IF l.lastEmittedLexemeType \in
                {"FilterStringLiteral", "FilterIntegerLiteral", "FilterFloatLiteral"}
         THEN errorf(l, <<"literal cannot be matched using =~ starting at %q at position %d, following %q">>
                            \o nextChar(l) \o <<ToString(l.pos)>> \o context(l))
         ELSE lexRegularExpressionLiteral(
                  stripWhitespace(emit(next(l, 2), "FilterMatchesRegularExpression")),
                  "lexFilterExpr")
    ELSE errorf(l, <<"invalid filter syntax starting at %q at position %d, following %q">>
                       \o nextChar(l) \o <<ToString(l.pos)>> \o context(l))

lexFilterTerm(l0) ==
    LET l == stripWhitespace(l0)
        num == lexNumericLiteral(l, "lexFilterExpr")
        str == lexStringLiteral(l, "lexFilterExpr")
    IN  IF hasPrefix(l, tok.filterAt) THEN goto(emit(next(l, 1), "FilterAt"), "lexSubPath")
        ELSE IF hasPrefix(l, tok.root) THEN goto(emit(next(l, 1), "Root"), "lexSubPath")
        ELSE IF num.present THEN num.l
        ELSE IF str.present THEN str.l
        ELSE IF hasPrefix(l, tok.filterBracket) \/ hasPrefix(l, tok.filterCloseBracket)
        THEN errorf(l, <<"missing filter term">>)
        ELSE errorf(l, <<"invalid filter term">>)

\* lexEndBracketFilter that consumes `)]` without emitting FilterEnd
lexEndBracketFilterSilent(l) ==
    IF hasPrefix(l, tok.filterBracket) THEN goto(next(l, 2), "lexSubPath")
    ELSE errorf(l, <<"invalid filter syntax: missing ">> \o tok.filterBracket)

lexEndBracketFilter(l) ==
    IF hasPrefix(l, tok.filterBracket) THEN goto(emit(next(l, 2), "FilterEnd"), "lexSubPath")
    ELSE errorf(l, <<"invalid filter syntax: missing ">> \o tok.filterBracket)

\* l.state(l): one call of the current state function
runState(l) ==
    CASE l.state = "lexPath" -> lexPath(l)
      [] l.state = "lexRoot" -> lexRoot(l)
      [] l.state = "lexSubPath" -> lexSubPath(l)
      [] l.state = "lexFilterExprInitial" -> lexFilterExprInitial(l)
      [] l.state = "lexFilterExpr" -> lexFilterExpr(l)
      [] l.state = "lexFilterTerm" -> lexFilterTerm(l)
      [] l.state = "lexEndBracketFilter" -> lexEndBracketFilter(l)

RECURSIVE nextLexeme(_)
\* nextLexeme: [lx |-> the lexeme returned, l |-> the lexer afterwards]; when
\* a state function is stuck in a send the call never returns, which is
\* reported as the pseudo lexeme of type "Blocked"
nextLexeme(l) ==
    IF l.blocked THEN [lx |-> Lexeme("Blocked", <<>>), l |-> l]
    ELSE IF Len(l.items) > 0
    THEN [lx |-> Head(l.items), l |-> [l EXCEPT !.items = Tail(@)]]
    ELSE IF l.state = "nil" THEN [lx |-> Lexeme("EOF", <<>>), l |-> l]
    ELSE nextLexeme(runState(l))

-----------------------------------------------------------------------------
(* The filter parser.  A filterNode is [lexeme, subpath, children]; the    *)
(* nil *filterNode is NilTree.  The parser record carries a panic flag:    *)
(* once a panic is raised the remaining calls unwind without effect.       *)

NilTree == [lexeme |-> Lexeme("nil", <<>>), subpath |-> <<>>, children |-> <<>>]

filterNode(lx, sub, ch) == [lexeme |-> lx, subpath |-> sub, children |-> ch]

newParser(in) ==
    [input |-> in, pos |-> 0, stack |-> <<>>, tree |-> NilTree, panic |-> FALSE]

parserPush(p, tree) == [p EXCEPT !.stack = Append(@, tree)]

\* [tree, p]
parserPop(p) ==
    IF Len(p.stack) = 0 THEN [tree |-> NilTree, p |-> [p EXCEPT !.panic = TRUE]]
    ELSE [tree |-> p.stack[Len(p.stack)],
          p |-> [p EXCEPT !.stack = SubSeq(p.stack, 1, Len(p.stack) - 1)]]

parserPeek(p) ==
    IF p.pos >= Len(p.input) THEN Lexeme("EOF", <<>>) ELSE p.input[p.pos + 1]

parserNextLexeme(p) == IF p.pos >= Len(p.input) THEN p ELSE [p EXCEPT !.pos = @ + 1]

\* the number of lexemes from position pos on that filterTerm takes into the
\* subpath of `@`
RECURSIVE subpathLen(_, _)
subpathLen(in, pos) ==
    IF pos < Len(in) /\ in[pos + 1].typ \in
           {"Identity", "DotChild", "BracketChild", "RecursiveDescent", "ArraySubscript"}
    THEN 1 + subpathLen(in, pos + 1)
    ELSE 0

filterTerm(p) ==
    IF p.panic THEN p
    ELSE LET n == parserPeek(p) IN
         IF n.typ = "EOF" THEN [p EXCEPT !.tree = NilTree]
         ELSE IF n.typ = "FilterAt"
         THEN LET p1 == parserNextLexeme(p)
                  k == subpathLen(p1.input, p1.pos)
              IN  [p1 EXCEPT !.pos = p1.pos + k,
                             !.tree = filterNode(n, SubSeq(p1.input, p1.pos + 1, p1.pos + k),
                                                 <<>>)]
         ELSE IF n.typ \in {"FilterIntegerLiteral", "FilterFloatLiteral", "FilterStringLiteral"}
         THEN [parserNextLexeme(p) EXCEPT !.tree = filterNode(n, <<>>, <<>>)]
         ELSE [p EXCEPT !.panic = TRUE]

\* basicFilter with a negation that takes the term after it, not the basic
\* filter, as its operand
basicFilterNegatedTerm(p) ==
    LET negated(n, p1) ==
            IF p1.panic THEN p1
            ELSE [p1 EXCEPT !.tree = filterNode(n, <<>>, <<p1.tree>>)]
        compared(m, p1, p2) ==
            IF p2.panic THEN p2
            ELSE [p2 EXCEPT !.tree = filterNode(m, <<>>, <<p1.tree, p2.tree>>)]
        term(p1, m) ==
            IF p1.panic THEN p1
            ELSE IF m.typ \in {"FilterEquality", "FilterInequality", "FilterGreaterThan",
                               "FilterGreaterThanOrEqual", "FilterLessThan",
                               "FilterLessThanOrEqual"}
            THEN compared(m, p1, filterTerm(parserNextLexeme(p1)))
            ELSE p1
        first(p1) == term(p1, parserPeek(p1))
    IN  IF p.panic THEN p
        ELSE IF parserPeek(p).typ = "FilterNot"
        THEN first(negated(parserPeek(p), filterTerm(parserNextLexeme(p))))
        ELSE first(filterTerm(p))

RECURSIVE basicFilter(_)
basicFilter(p) ==
    LET negated(n, p1) ==
            IF p1.panic THEN p1
            ELSE [p1 EXCEPT !.tree = filterNode(n, <<>>, <<p1.tree>>)]
        compared(m, p1, p2) ==
            IF p2.panic THEN p2
            ELSE [p2 EXCEPT !.tree = filterNode(m, <<>>, <<p1.tree, p2.tree>>)]
        term(p1, m) ==
            IF p1.panic THEN p1
            ELSE IF m.typ \in {"FilterEquality", "FilterInequality", "FilterGreaterThan",
                               "FilterGreaterThanOrEqual", "FilterLessThan",
                               "FilterLessThanOrEqual"}
            THEN compared(m, p1, filterTerm(parserNextLexeme(p1)))
            ELSE p1
        first(p1) == term(p1, parserPeek(p1))
    IN  IF p.panic THEN p
        ELSE IF parserPeek(p).typ = "FilterNot"
        THEN negated(parserPeek(p), basicFilter(parserNextLexeme(p)))
        ELSE first(filterTerm(p))

and(p) ==
    LET combine(n, p1, t) ==
            IF p1.panic THEN p1
            ELSE [t.p EXCEPT !.tree = filterNode(n, <<>>, <<t.tree, p1.tree>>)]
        right(n, p1) == combine(n, p1, parserPop(p1))
    IN  right(parserPeek(p), basicFilter(parserNextLexeme(p)))

RECURSIVE conjunctionLoop(_)
conjunctionLoop(p) ==
    IF p.panic \/ parserPeek(p).typ # "FilterAnd" THEN p
    ELSE conjunctionLoop(and(parserPush(p, p.tree)))

conjunction(p) == conjunctionLoop(basicFilter(p))

\* or with a basic filter, not a conjunction, as its right operand
orOfBasicFilters(p) ==
    LET combine(n, p1, t) ==
            IF p1.panic THEN p1
            ELSE [t.p EXCEPT !.tree = filterNode(n, <<>>, <<t.tree, p1.tree>>)]
        right(n, p1) == combine(n, p1, parserPop(p1))
    IN  right(parserPeek(p), basicFilter(parserNextLexeme(p)))

or(p) ==
    LET combine(n, p1, t) ==
            IF p1.panic THEN p1
            ELSE [t.p EXCEPT !.tree = filterNode(n, <<>>, <<t.tree, p1.tree>>)]
        right(n, p1) == combine(n, p1, parserPop(p1))
    IN  right(parserPeek(p), conjunction(parserNextLexeme(p)))

RECURSIVE expressionLoop(_)
expressionLoop(p) ==
    IF p.panic \/ parserPeek(p).typ # "FilterOr" THEN p
    ELSE expressionLoop(or(parserPush(p, p.tree)))

expression(p) == expressionLoop(conjunction(p))

\* [panic, tree]
parse(p) ==
    IF parserPeek(p).typ = "EOF" THEN [panic |-> FALSE, tree |-> NilTree]
    ELSE LET result(p1) == [panic |-> p1.panic, tree |-> p1.tree] IN result(expression(p))

newFilterNode(lexemes) == parse(newParser(lexemes))

-----------------------------------------------------------------------------
(* The path compiler (pkg/yamlpath/path.go) and the filter builder.  A     *)
(* compiled Path is a record naming the closure held in its f field and the *)
(* values the closure captured; the nil *Path is NilPath.  A compiled      *)
(* filter and a filterScanner are records of the same kind.  The result of *)
(* a call carries its outcome: "ok" (it returned), "panic", or "blocked"   *)
(* (the lexer is stuck in a send, so the call never returns).              *)

NilPath == [op |-> "nil"]

\* a variant of identity that takes the content node of a Document, as the
\* root matcher does
identityOfContent == [op |-> "root", p |-> [op |-> "identity"]]

identityPath == [op |-> "identity"]

emptyPath == [op |-> "empty"]

NilErr == [nil |-> TRUE, msg |-> <<>>]

errorsNew(m) == [nil |-> FALSE, msg |-> m]

allChildrenThen(p) == [op |-> "allChildren", p |-> p]

childThen(childName, p) ==
    IF childName = <<"*">> THEN allChildrenThen(p)
    ELSE [op |-> "child", childName |-> childName, p |-> p]

RECURSIVE childrenThen(_, _)
childrenThen(childNames, p) ==
    LET c == SplitN2(childNames, ".") IN
    IF Len(c) = 2 THEN childThen(c[1], childrenThen(c[2], p))
    ELSE childThen(c[1], p)

arraySubscriptThen(subscript, p) == [op |-> "arraySubscript", subscript |-> subscript, p |-> p]

RECURSIVE newPath(_)

NewPath(path) == newPath(lex(path))

never == [op |-> "never"]

emptyScanner == [op |-> "empty"]

RECURSIVE concatVals(_)
concatVals(lexemes) ==
    IF lexemes = <<>> THEN <<>> ELSE Head(lexemes).val \o concatVals(Tail(lexemes))

\* [outcome, s]
pathFilterScanner(n) ==
    IF n.lexeme.typ \notin {"FilterAt", "Root"} THEN [outcome |-> "panic", s |-> emptyScanner]
    ELSE LET scanner(r) ==
                 IF r.outcome # "ok" THEN [outcome |-> r.outcome, s |-> emptyScanner]
                 ELSE IF ~r.err.nil THEN [outcome |-> "ok", s |-> emptyScanner]
                 ELSE [outcome |-> "ok",
                       s |-> [op |-> "path", at |-> n.lexeme.typ = "FilterAt",
                              path |-> r.path]]
         IN  scanner(NewPath(concatVals(n.subpath)))

isItemFilter(n) == n.lexeme.typ = "FilterAt" \/ n.lexeme.typ = "Root"

isLiteral(n) ==
    n.lexeme.typ \in {"FilterStringLiteral", "FilterFloatLiteral", "FilterIntegerLiteral"}

\* the text of a literal lexeme
literalValue(lx) ==
    CASE lx.typ = "EOF" -> <<"E", "O", "F">>
      [] lx.typ = "FilterStringLiteral" -> SubSeq(lx.val, 2, Len(lx.val) - 1)
      [] lx.typ = "FilterRegularExpressionLiteral" -> sanitiseRegularExpressionLiteral(lx.val)
      [] OTHER -> lx.val

\* the valueType of a literal lexeme
literalValueType(lx) ==
    CASE lx.typ = "FilterStringLiteral" -> "string"
      [] lx.typ = "FilterIntegerLiteral" -> "int"
      [] lx.typ = "FilterFloatLiteral" -> "float"
      [] lx.typ = "FilterRegularExpressionLiteral" -> "regularExpression"
      [] OTHER -> "unknown"

typedValue(t, v) == [typ |-> t, val |-> v]

literalFilterScanner(n) ==
    [op |-> "literal", v |-> typedValue(literalValueType(n.lexeme), literalValue(n.lexeme))]

newFilterScanner(n) ==
    IF n.lexeme.typ = "nil" THEN [outcome |-> "ok", s |-> emptyScanner]
    ELSE IF isItemFilter(n) THEN pathFilterScanner(n)
    ELSE IF isLiteral(n) THEN [outcome |-> "ok", s |-> literalFilterScanner(n)]
    ELSE [outcome |-> "ok", s |-> emptyScanner]

\* nodeToFilter at construction: the two scanners; accept names the
\* acceptance function, a comparison lexeme type or "matches"
nodeToFilter(n, accept) ==
    LET both(lhs, rhs) ==
            IF rhs.outcome # "ok" THEN [outcome |-> rhs.outcome, f |-> never]
            ELSE [outcome |-> "ok",
                  f |-> [op |-> "nodeToFilter", accept |-> accept,
                         lhsPath |-> lhs.s, rhsPath |-> rhs.s]]
        left(lhs) ==
            IF lhs.outcome # "ok" THEN [outcome |-> lhs.outcome, f |-> never]
            ELSE both(lhs, newFilterScanner(n.children[2]))
    IN  left(newFilterScanner(n.children[1]))

comparisonFilter(n) == nodeToFilter(n, n.lexeme.typ)

matchRegularExpression(n) == nodeToFilter(n, "matches")

RECURSIVE newFilter(_)
\* [outcome, f]
newFilter(n) ==
    IF n.lexeme.typ = "nil" THEN [outcome |-> "ok", f |-> never]
    ELSE IF n.lexeme.typ \in {"FilterAt", "Root"}
    THEN LET exists(path) ==
                 [outcome |-> path.outcome, f |-> [op |-> "exists", path |-> path.s]]
         IN  exists(pathFilterScanner(n))
    ELSE IF n.lexeme.typ \in {"FilterEquality", "FilterInequality", "FilterGreaterThan",
                              "FilterGreaterThanOrEqual", "FilterLessThan",
                              "FilterLessThanOrEqual"}
    THEN comparisonFilter(n)
    ELSE IF n.lexeme.typ = "FilterMatchesRegularExpression" THEN matchRegularExpression(n)
    ELSE IF n.lexeme.typ = "FilterNot"
    THEN LET not(f) == [outcome |-> f.outcome, f |-> [op |-> "not", f |-> f.f]]
         IN  not(newFilter(n.children[1]))
    ELSE IF n.lexeme.typ \in {"FilterOr", "FilterAnd"}
    THEN LET both(f1, f2) ==
                 [outcome |-> f2.outcome,
                  f |-> [op |-> IF n.lexeme.typ = "FilterOr" THEN "or" ELSE "and",
                         f1 |-> f1.f, f2 |-> f2.f]]
             left(f1) ==
                 IF f1.outcome # "ok" THEN [outcome |-> f1.outcome, f |-> never]
                 ELSE both(f1, newFilter(n.children[2]))
         IN  left(newFilter(n.children[1]))
    ELSE [outcome |-> "ok", f |-> never]

\* [outcome, path]
filterThen(filterLexemes, p) ==
    LET built(filter) ==
            IF filter.outcome # "ok" THEN [outcome |-> filter.outcome, path |-> NilPath]
            ELSE [outcome |-> "ok", path |-> [op |-> "filter", filter |-> filter.f, p |-> p]]
        parsed(tree) ==
            IF tree.panic THEN [outcome |-> "panic", path |-> NilPath]
            ELSE built(newFilter(tree.tree))
    IN  parsed(newFilterNode(filterLexemes))

RECURSIVE collectFilterFlat(_, _, _)
\* the loop that gathers the lexemes of a filter up to the first FilterEnd,
\* whatever the nesting
collectFilterFlat(l, filterLexemes, filterNestingLevel) ==
    LET loop(r) ==
    IF r.lx.typ = "Blocked" THEN [end |-> "Blocked", lexemes |-> filterLexemes, l |-> r.l]
    ELSE IF r.lx.typ = "EOF" THEN [end |-> "EOF", lexemes |-> filterLexemes, l |-> r.l]
    ELSE IF r.lx.typ = "FilterEnd"
    THEN [end |-> "FilterEnd", lexemes |-> filterLexemes, l |-> r.l]
    ELSE collectFilterFlat(r.l, Append(filterLexemes, r.lx), filterNestingLevel)
    IN  loop(nextLexeme(l))

RECURSIVE collectFilter(_, _, _)
\* the loop of newPath that gathers the lexemes of a filter:
\* [end |-> "FilterEnd" / "EOF" / "Blocked", lexemes, l]
collectFilter(l, filterLexemes, filterNestingLevel) ==
    LET loop(r) ==
    IF r.lx.typ = "Blocked" THEN [end |-> "Blocked", lexemes |-> filterLexemes, l |-> r.l]
    ELSE IF r.lx.typ = "EOF" THEN [end |-> "EOF", lexemes |-> filterLexemes, l |-> r.l]
    ELSE IF r.lx.typ = "FilterEnd" /\ filterNestingLevel = 1
    THEN [end |-> "FilterEnd", lexemes |-> filterLexemes, l |-> r.l]
    ELSE collectFilter(r.l, Append(filterLexemes, r.lx),
                       IF r.lx.typ = "FilterBegin" THEN filterNestingLevel + 1
                       ELSE IF r.lx.typ = "FilterEnd" THEN filterNestingLevel - 1
                       ELSE filterNestingLevel)
    IN  loop(nextLexeme(l))

Returned(path, err, l) == [outcome |-> "ok", path |-> path, err |-> err, l |-> l]

NotReturned(outcome, l) == [outcome |-> outcome, path |-> NilPath, err |-> NilErr, l |-> l]

\* what newPath does with a compiled subPath: sub is the result of the
\* recursive call, path the Path built around sub.path when it succeeded
withSubPath(sub, path) ==
    IF sub.outcome # "ok" THEN sub
    ELSE IF ~sub.err.nil THEN Returned(emptyPath, sub.err, sub.l)
    ELSE Returned(path, NilErr, sub.l)

\* [outcome, path, err, l]
newPath(l) ==
    LET switch(r, lx) ==
        IF lx.typ = "Blocked" THEN NotReturned("blocked", r.l)
        ELSE IF lx.typ = "Error" THEN Returned(NilPath, errorsNew(lx.val), r.l)
        ELSE IF lx.typ \in {"Identity", "EOF"} THEN Returned(identityPath, NilErr, r.l)
        ELSE IF lx.typ = "Root"
        THEN LET subPath == newPath(r.l) IN
             withSubPath(subPath, [op |-> "root", p |-> subPath.path])
        ELSE IF lx.typ = "RecursiveDescent"
        THEN LET subPath == newPath(r.l)
                 childName == TrimPrefix(lx.val, <<".", ".">>)
             IN  withSubPath(subPath,
                     IF childName = <<"*">> THEN [op |-> "recurse", p |-> subPath.path]
                     ELSE [op |-> "recurse", p |-> childThen(childName, subPath.path)])
        ELSE IF lx.typ = "DotChild"
        THEN LET subPath == newPath(r.l) IN
             withSubPath(subPath, childThen(TrimPrefix(lx.val, <<".">>), subPath.path))
        ELSE IF lx.typ = "BracketChild"
        THEN LET subPath == newPath(r.l)
                 childNames == TrimSuffix(TrimPrefix(lx.val, <<"[", "'">>), <<"'", "]">>)
             IN  withSubPath(subPath, childrenThen(childNames, subPath.path))
        ELSE IF lx.typ = "ArraySubscript"
        THEN LET subPath == newPath(r.l)
                 subscript == TrimSuffix(TrimPrefix(lx.val, <<"[">>), <<"]">>)
             IN  withSubPath(subPath, arraySubscriptThen(subscript, subPath.path))
        ELSE IF lx.typ = "FilterBegin"
        THEN LET filter(c) ==
                 IF c.end = "Blocked" THEN NotReturned("blocked", c.l)
                 ELSE IF c.end = "EOF"
                 THEN Returned(emptyPath, errorsNew(<<"missing end of filter">>), c.l)
                 ELSE LET subPath == newPath(c.l)
                          then(f) == IF f.outcome # "ok" THEN NotReturned(f.outcome, subPath.l)
                                     ELSE Returned(f.path, NilErr, subPath.l)
                      IN  IF subPath.outcome # "ok" \/ ~subPath.err.nil
                          THEN withSubPath(subPath, emptyPath)
                          ELSE then(filterThen(c.lexemes, subPath.path))
             IN  filter(collectFilter(r.l, <<>>, 1))
        ELSE Returned(emptyPath, errorsNew(<<"invalid path syntax">>), r.l)
        first(r) == switch(r, r.lx)
    IN  first(nextLexeme(l))

-----------------------------------------------------------------------------
(* The slice resolver: the indices selected by the body of an array        *)
(* subscript in a sequence of the given length.                            *)

RECURSIVE sliceUp(_, _, _)
\* for i := from; i < to; i += step (step > 0)
sliceUp(i, to, step) == IF i < to THEN <<i>> \o sliceUp(i + step, to, step) ELSE <<>>

RECURSIVE sliceDown(_, _, _)
\* for i := from; i > to; i += step (step < 0)
sliceDown(i, to, step) == IF i > to THEN <<i>> \o sliceDown(i + step, to, step) ELSE <<>>

\* the parameter at 0-based position i of the subscript, before conversion:
\* a blank parameter takes the default of its position
sliceParm(s, i, length) ==
    IF i = 0 /\ s = <<>> THEN [ok |-> TRUE, n |-> 0]
    ELSE IF i = 1 /\ s = <<>> THEN [ok |-> TRUE, n |-> length]
    ELSE IF i = 2 /\ s = <<>> THEN [ok |-> TRUE, n |-> 1]
    ELSE IF AtoiOk(s) THEN [ok |-> TRUE, n |-> Atoi(s)]
    ELSE [ok |-> FALSE, n |-> 0]

\* from, to and step of a subscript with parameters p
sliceBounds(p, length) ==
    LET from0 == IF p[1] < 0 THEN length + p[1] ELSE p[1]
        to0 == IF p[1] < 0 THEN from0 - 1 ELSE from0 + 1
        step0 == IF p[1] < 0 THEN 0 - 1 ELSE 1
        to1 == IF Len(p) >= 2 THEN (IF p[2] >= 0 THEN p[2] ELSE length + p[2]) ELSE to0
        step1 == IF Len(p) >= 2 /\ from0 < to1 THEN 1 ELSE step0
        step == IF Len(p) = 3 THEN p[3] ELSE step1
    IN  IF step < 0 /\ from0 <= to1
        THEN [from |-> to1 - 1, to |-> from0 - 1, step |-> step]
        ELSE [from |-> from0, to |-> to1, step |-> step]

RECURSIVE slice(_, _)

RECURSIVE sliceUnion(_, _, _)
\* the loop of slice over the members of a union, from 0-based member i on
sliceUnion(union, i, length) ==
    IF i >= Len(union) THEN [err |-> NilErr, slice |-> <<>>]
    ELSE LET sl == slice(union[i + 1], length) IN
         IF ~sl.err.nil
         THEN [err |-> errorsNew(<<"error in union member %d: %s", ToString(i)>> \o sl.err.msg),
               slice |-> <<>>]
         ELSE LET rest == sliceUnion(union, i + 1, length) IN
              IF ~rest.err.nil THEN rest
              ELSE [err |-> NilErr, slice |-> sl.slice \o rest.slice]

\* [err, slice]
slice(index0, length) ==
    LET union == Split(index0, ",")
        index == TrimSpace(index0)
        sliceParms == Split(index, ":")
        parms == [i \in 1..Len(sliceParms) |-> sliceParm(TrimSpace(sliceParms[i]), i - 1, length)]
        b == IF index = <<"*">> THEN [from |-> 0, to |-> length, step |-> 1]
             ELSE sliceBounds([i \in 1..Len(parms) |-> parms[i].n], length)
    IN  IF Len(union) > 1 THEN sliceUnion(union, 0, length)
        ELSE IF index # <<"*">> /\ Len(sliceParms) > 3
        THEN [err |-> errorsNew(<<"malformed array index">>), slice |-> <<>>]
        ELSE IF index # <<"*">> /\ \E i \in 1..Len(parms) : ~parms[i].ok
        THEN [err |-> errorsNew(<<"non-integer array index">>), slice |-> <<>>]
        ELSE [err |-> NilErr,
              slice |-> IF b.step > 0 THEN sliceUp(b.from, b.to, b.step)
                        ELSE IF b.step < 0 THEN sliceDown(b.from, b.to, b.step)
                        ELSE <<>>]

-----------------------------------------------------------------------------
(* The comparator kernel (pkg/yamlpath/comparison.go).                     *)

compareStrings(a, b) == IF a = b THEN "compareEqual" ELSE "compareIncomparable"

compareFloat64(lhs, rhs) ==
    IF lhs < rhs THEN "compareLessThan"
    ELSE IF lhs > rhs THEN "compareGreaterThan"
    ELSE "compareEqual"

compareNodeValues(lhs, rhs) ==
    IF ParseFloatOk(lhs) /\ ParseFloatOk(rhs)
    THEN compareFloat64(ParseFloat(lhs), ParseFloat(rhs))
    ELSE compareStrings(lhs, rhs)

equal(c) == c = "compareEqual"

\* a variant of notEqual that accepts the two orderings only
notEqualOrdered(c) == c = "compareLessThan" \/ c = "compareGreaterThan"

notEqual(c) == c # "compareEqual"

\* a variant of greaterThan that accepts equal values as well
greaterThanOrSame(c) == c = "compareGreaterThan" \/ c = "compareEqual"

greaterThan(c) == c = "compareGreaterThan"

greaterThanOrEqual(c) == c = "compareGreaterThan" \/ c = "compareEqual"

lessThan(c) == c = "compareLessThan"

lessThanOrEqual(c) == c = "compareLessThan" \/ c = "compareEqual"

falseComparator(c) == FALSE

\* lexeme.comparator() applied to a comparison: typ is the lexeme's type
comparator(typ, c) ==
    CASE typ = "FilterEquality" -> equal(c)
      [] typ = "FilterInequality" -> notEqual(c)
      [] typ = "FilterGreaterThan" -> greaterThan(c)
      [] typ = "FilterGreaterThanOrEqual" -> greaterThanOrEqual(c)
      [] typ = "FilterLessThan" -> lessThan(c)
      [] typ = "FilterLessThanOrEqual" -> lessThanOrEqual(c)
      [] OTHER -> falseComparator(c)

-----------------------------------------------------------------------------
(* YAML nodes and the evaluation of compiled paths and filters.  A node is *)
(* [Kind, Tag, Value, Content]; a *yaml.Node is the sequence of Content    *)
(* positions (1-based) leading to it from the node given to Find.          *)

Node(kind, tag, val, content) ==
    [Kind |-> kind, Tag |-> tag, Value |-> val, Content |-> content]

RECURSIVE NodeAt(_, _)
NodeAt(d, ref) == IF ref = <<>> THEN d ELSE NodeAt(d.Content[Head(ref)], Tail(ref))

RECURSIVE RecurseFrom(_, _, _)

\* yit RecurseNodes: the node and all its descendants, in document order
RecurseNodes(d, ref) == <<ref>> \o RecurseFrom(d, ref, 1)

RecurseFrom(d, ref, i) ==
    IF i > Len(NodeAt(d, ref).Content) THEN <<>>
    ELSE RecurseNodes(d, Append(ref, i)) \o RecurseFrom(d, ref, i + 1)

isNumeric(vt) == vt = "int" \/ vt = "float"

\* a variant of compatibleWith that takes every two types for compatible
compatibleAlways(vt, vt2) == TRUE

compatibleWith(vt, vt2) ==
    \/ isNumeric(vt) /\ isNumeric(vt2)
    \/ vt = vt2
    \/ vt = "string" /\ vt2 = "regularExpression"

typedValueOfNode(node) ==
    typedValue(IF node.Kind = "ScalarNode"
               THEN CASE node.Tag = "!!null" -> "null"
                      [] node.Tag = "!!bool" -> "boolean"
                      [] node.Tag = "!!str" -> "string"
                      [] node.Tag = "!!int" -> "int"
                      [] node.Tag = "!!float" -> "float"
                      [] OTHER -> "unknown"
               ELSE "unknown",
               node.Value)

values(d, nodes) == [i \in 1..Len(nodes) |-> typedValueOfNode(NodeAt(d, nodes[i]))]

\* regexp Match for the literal expressions of the model: s contains expr
stringMatchesRegularExpression(s, expr) ==
    \E i \in 0..(Len(s) - Len(expr)) : SubSeq(s, i + 1, i + Len(expr)) = expr

\* the accept function handed to nodeToFilter
Accept(accept, l, r) ==
    IF accept = "matches" THEN stringMatchesRegularExpression(l, r)
    ELSE comparator(accept, compareNodeValues(l, r))

RECURSIVE nodeToFilterLoop(_, _, _, _, _, _)
\* the two nested loops of the filter returned by nodeToFilter, at the pair
\* (lhs[i], rhs[j]) with the current value of match
nodeToFilterLoop(accept, lhs, rhs, i, j, match) ==
    IF i > Len(lhs) THEN match
    ELSE IF j > Len(rhs) THEN nodeToFilterLoop(accept, lhs, rhs, i + 1, 1, match)
    ELSE IF ~compatibleWith(lhs[i].typ, rhs[j].typ) THEN Accept(accept, <<"x">>, <<"y">>)
    ELSE IF ~Accept(accept, lhs[i].val, rhs[j].val) THEN FALSE
    ELSE nodeToFilterLoop(accept, lhs, rhs, i, j + 1, TRUE)

RECURSIVE apply(_, _, _, _)
RECURSIVE compose(_, _, _, _)
RECURSIVE evalFilter(_, _, _, _)
RECURSIVE filterChildren(_, _, _, _, _)

Panic == [outcome |-> "panic", nodes |-> <<>>]

Nodes(ns) == [outcome |-> "ok", nodes |-> ns]

\* compose(i, p, root) for the iterator over the nodes i of document d
compose(i, p, d, root) ==
    IF i = <<>> THEN Nodes(<<>>)
    ELSE LET a == apply(p, d, Head(i), root) IN
         IF a.outcome # "ok" THEN a
         ELSE LET rest == compose(Tail(i), p, d, root) IN
              IF rest.outcome # "ok" THEN rest ELSE Nodes(a.nodes \o rest.nodes)

\* [outcome, vals]: a filterScanner applied to (node, root)
scan(s, d, node, root) ==
    IF s.op = "empty" THEN [outcome |-> "ok", vals |-> <<>>]
    ELSE IF s.op = "literal" THEN [outcome |-> "ok", vals |-> <<s.v>>]
    ELSE LET r == IF s.at THEN apply(s.path, d, node, node) ELSE apply(s.path, d, root, root)
         IN  [outcome |-> r.outcome, vals |-> values(d, r.nodes)]

\* [outcome, result]: a filter applied to (node, root)
evalFilter(f, d, node, root) ==
    IF f.op = "never" THEN [outcome |-> "ok", result |-> FALSE]
    ELSE IF f.op = "exists"
    THEN LET v == scan(f.path, d, node, root) IN
         [outcome |-> v.outcome, result |-> Len(v.vals) > 0]
    ELSE IF f.op = "nodeToFilter"
    THEN LET lhs == scan(f.lhsPath, d, node, root) IN
         IF lhs.outcome # "ok" THEN [outcome |-> lhs.outcome, result |-> FALSE]
         ELSE IF lhs.vals = <<>> THEN [outcome |-> "ok", result |-> FALSE]
         ELSE LET rhs == scan(f.rhsPath, d, node, root) IN
              IF rhs.outcome # "ok" THEN [outcome |-> rhs.outcome, result |-> FALSE]
              ELSE [outcome |-> "ok",
                    result |-> nodeToFilterLoop(f.accept, lhs.vals, rhs.vals, 1, 1, FALSE)]
    ELSE IF f.op = "not"
    THEN LET r == evalFilter(f.f, d, node, root) IN
         [outcome |-> r.outcome, result |-> ~r.result]
    ELSE LET r1 == evalFilter(f.f1, d, node, root) IN
         IF r1.outcome # "ok" THEN r1
         ELSE IF f.op = "or" /\ r1.result THEN r1
         ELSE IF f.op = "and" /\ ~r1.result THEN r1
         ELSE evalFilter(f.f2, d, node, root)

\* the loop of the closure of filterThen over the children from position c
filterChildren(path, d, node, root, c) ==
    IF c > Len(NodeAt(d, node).Content) THEN Nodes(<<>>)
    ELSE LET keep == evalFilter(path.filter, d, Append(node, c), root) IN
         IF keep.outcome # "ok" THEN Panic
         ELSE LET here == IF keep.result THEN compose(<<Append(node, c)>>, path.p, d, root)
                          ELSE Nodes(<<>>)
              IN  IF here.outcome # "ok" THEN here
                  ELSE LET rest == filterChildren(path, d, node, root, c + 1) IN
                       IF rest.outcome # "ok" THEN rest
                       ELSE Nodes(here.nodes \o rest.nodes)

\* p.f(node, root) in document d: [outcome, nodes]
apply(p, d, node, root) ==
    LET n == NodeAt(d, node) IN
    IF p.op = "nil" THEN Panic
    ELSE IF p.op = "identity" THEN IF n.Kind = "0" THEN Nodes(<<>>) ELSE Nodes(<<node>>)
    ELSE IF p.op = "empty" THEN Nodes(<<>>)
    ELSE IF p.op = "root"
    THEN IF n.Kind = "DocumentNode"
         THEN IF Len(n.Content) = 0 THEN Panic
              ELSE compose(<<Append(node, 1)>>, p.p, d, root)
         ELSE compose(<<node>>, p.p, d, root)
    ELSE IF p.op = "recurse" THEN compose(RecurseNodes(d, node), p.p, d, root)
    ELSE IF p.op = "child"
    THEN IF n.Kind # "MappingNode" THEN Nodes(<<>>)
         ELSE LET hits == {i \in 1..Len(n.Content) : n.Content[i].Value = p.childName} IN
              IF hits = {} THEN Nodes(<<>>)
              ELSE LET i == CHOOSE i \in hits : \A j \in hits : i <= j IN
                   IF i + 1 > Len(n.Content) THEN Panic
                   ELSE compose(<<Append(node, i + 1)>>, p.p, d, root)
    ELSE IF p.op = "allChildren"
    THEN IF n.Kind # "MappingNode" THEN Nodes(<<>>)
         ELSE compose([i \in 1..Len(n.Content) |-> Append(node, i)], p.p, d, root)
    ELSE IF p.op = "arraySubscript"
    THEN IF n.Kind # "SequenceNode" THEN Nodes(<<>>)
         ELSE LET sl == slice(p.subscript, Len(n.Content)) IN
              IF ~sl.err.nil THEN Panic
              ELSE IF \E k \in 1..Len(sl.slice) :
                          sl.slice[k] < 0 \/ sl.slice[k] >= Len(n.Content)
              THEN Panic
              ELSE compose([k \in 1..Len(sl.slice) |-> Append(node, sl.slice[k] + 1)],
                           p.p, d, root)
    ELSE IF n.Kind # "SequenceNode" THEN Panic
    ELSE filterChildren(p, d, node, root, 1)

\* Path.Find
Find(p, d) == apply(p, d, <<>>, <<>>)

-----------------------------------------------------------------------------
(* The client program: it compiles one path expression with NewPath and,   *)
(* when that returned without error, applies the Path to a document with   *)
(* Find.                                                                    *)

\* the number of steps after the root in the expressions without a filter
MaxSteps == 2

\* the pieces the path expressions of the model are made of
Frag ==
    [roots |-> {<<>>, <<"$">>},
     \* well-formed steps
     steps |-> {<<".", "a">>, <<".", "b">>, <<".", "s">>, <<".", "*">>, <<".", ".", "a">>,
              <<".", ".", "*">>, <<"[", "'", "a", "'", "]">>,
              <<"[", "'", "b", "'", ",", "'", "a", "'", "]">>, <<"[", "'", "s", ".", "a",
              "'", "]">>, <<".", "s", "[", "0", "]">>, <<".", "s", "[", "1", ":", "]">>,
              <<".", "s", "[", "4", "]">>, <<".", "s", "[", "-", "1", "]">>, <<".", "s",
              "[", "*", "]">>},
     \* malformed steps
     broken |-> {<<".">>, <<".", "s", "[">>, <<".", "s", "[", "x", "]">>, <<"[", "0", "]">>,
               <<".", "s", "[", "0", "]", " ">>, <<"[", "'", "a">>, <<"x">>},
     \* the sequence a filter is applied to, and what follows the filter
     before |-> {<<>>, <<".", "s">>},
     after |-> {<<>>, <<".", "a">>, <<".">>},
     \* a filter with and without its end
     ends |-> {<<")", "]">>, <<>>},
     \* comparisons: a left operand, an operator, a right operand (or none)
     lhs |-> {<<"@", ".", "a">>, <<"1">>, <<"'", "x", "'">>, <<"'", "x", "'", " ">>},
     operators |-> {<<"=", "=">>, <<"!", "=">>, <<">">>, <<">", "=">>, <<"<">>, <<"<", "=">>,
                  <<"=", "~">>},
     rhs |-> {<<"1">>, <<"'", "x", "'">>, <<"@", ".", "b">>, <<"$", ".", "a">>, <<>>, <<"/",
            "x", "/">>, <<" ", "'", "x", "'">>},
     \* the other filter bodies
     bodies |-> {<<"@", ".", "a">>, <<"@">>, <<"$", ".", "a">>, <<"$">>, <<"1">>, <<"(", "@",
               ".", "a", ")">>, <<"!", "@", ".", "a">>, <<>>, <<"@", ".", "a", "[", "?",
               "(", "@", ".", "b", ")", "]">>, <<"@", ".", "s", "[", "?", "(", "$", ".",
               "a", ")", "]">>, <<"@", ".", "a", "&", "&", "@", ".", "b">>, <<"@", ".", "a",
               "|", "|", "@", ".", "b">>, <<"@", ".", "a", "=", "=", "1", "&", "&", "@",
               ".", "b">>, <<"@", ".", "a", "=", "=", "1", "|", "|", "!", "@", ".", "b">>,
               <<"=", "=", "1">>, <<"@", ".", "a", " ", "@", ".", "b">>, <<"'", "x">>,
               <<"1", ".", "5">>, <<"@", ".", "a", "=", "=", "1", " ">>,
               \* parentheses without their partner, operators without operand
               <<"@", ".", "a", ")">>, <<"(", "@", ".", "a">>, <<"@", ".", "a", "&", "&">>,
               <<"@", ".", "a", "|", "|">>, <<"!">>, <<"(", "@", ".", "a", "&", "&", ")">>},
     \* stray ends of a filter
     stray |-> {<<")", "]">>}]

RECURSIVE StepSeqs(_)
\* the concatenations of at most n steps
StepSeqs(n) ==
    IF n = 0 THEN {<<>>}
    ELSE StepSeqs(n - 1) \cup
         {s \o t : s \in StepSeqs(n - 1), t \in Frag.steps \cup Frag.broken \cup Frag.stray}

FilterBodies ==
    Frag.bodies \cup {l \o o \o r : l \in Frag.lhs, o \in Frag.operators, r \in Frag.rhs}

Inputs ==
    {r \o s : r \in Frag.roots, s \in StepSeqs(MaxSteps)} \cup
    {r \o b \o tok.bracketFilter \o f \o e \o a :
        r \in Frag.roots, b \in Frag.before, f \in FilterBodies, e \in Frag.ends,
        a \in Frag.after}


\* the YAML nodes given to Find
Docs ==
    LET sc(tag, val) == Node("ScalarNode", tag, val, <<>>)
        map(content) == Node("MappingNode", "!!map", <<>>, content)
        seq(content) == Node("SequenceNode", "!!seq", <<>>, content)
        document(n) == Node("DocumentNode", "", <<>>, <<n>>)
    IN  [\* c: a, a: b
         valuesMatchingKeys |-> document(map(<<sc("!!str", <<"c">>), sc("!!str", <<"a">>),
             sc("!!str", <<"a">>), sc("!!str", <<"b">>)>>)),
         \* b: a
         valueLast |-> document(map(<<sc("!!str", <<"b">>), sc("!!str", <<"a">>)>>)),
         \* a: 1, b: x, s: [{a: 1, b: 1}, {a: 2, b: x}, {b: 2}, x]
         store |-> document(map(<<sc("!!str", <<"a">>), sc("!!int", <<"1">>), sc("!!str",
             <<"b">>), sc("!!str", <<"x">>), sc("!!str", <<"s">>), seq(<<map(<<sc("!!str",
             <<"a">>), sc("!!int", <<"1">>), sc("!!str", <<"b">>), sc("!!int", <<"1">>)>>),
             map(<<sc("!!str", <<"a">>), sc("!!int", <<"2">>), sc("!!str", <<"b">>),
             sc("!!str", <<"x">>)>>), map(<<sc("!!str", <<"b">>), sc("!!int", <<"2">>)>>),
             sc("!!str", <<"x">>)>>)>>)),
         \* [{a: 1}, {a: x, b: 1}, 1]
         sequence |-> document(seq(<<map(<<sc("!!str", <<"a">>), sc("!!int", <<"1">>)>>),
             map(<<sc("!!str", <<"a">>), sc("!!str", <<"x">>), sc("!!str", <<"b">>),
             sc("!!int", <<"1">>)>>), sc("!!int", <<"1">>)>>)),
         \* a
         scalar |-> document(sc("!!str", <<"a">>)),
         \* not a document: a: {a: 1}, s: [1, 2]
         mappingNode |-> map(<<sc("!!str", <<"a">>), map(<<sc("!!str", <<"a">>),
             sc("!!int", <<"1">>)>>), sc("!!str", <<"s">>), seq(<<sc("!!int", <<"1">>),
             sc("!!int", <<"2">>)>>)>>),
         \* not a document: [{a: 1}, 2]
         sequenceNode |-> seq(<<map(<<sc("!!str", <<"a">>), sc("!!int", <<"1">>)>>),
             sc("!!int", <<"2">>)>>)]

\* the variables before the calls that set them: no result of NewPath, the
\* zero yaml.Node, no result of Find, of slice, of a filter and of the parser
Unset ==
    [compiled |-> [outcome |-> "none", path |-> NilPath, err |-> NilErr],
     doc |-> Node("0", "", <<>>, <<>>),
     found |-> [outcome |-> "none", nodes |-> <<>>],
     sliceArgs |-> [index |-> <<>>, length |-> 0],
     sliceRes |-> [err |-> NilErr, slice |-> <<>>],
     cmpArgs |-> [op |-> "FilterEquality", lhs |-> <<>>, rhs |-> <<>>],
     cmpRes |-> FALSE,
     parseArgs |-> <<>>,
     parseRes |-> [panic |-> FALSE, tree |-> NilTree],
     calls |-> <<>>,
     lexer |-> lex(<<>>)]

Init ==
    /\ input \in Inputs
    /\ pc = "start"
    /\ compiled = Unset.compiled
    /\ doc = Unset.doc
    /\ found = Unset.found
    /\ sliceArgs = Unset.sliceArgs
    /\ sliceRes = Unset.sliceRes
    /\ cmpArgs = Unset.cmpArgs
    /\ cmpRes = Unset.cmpRes
    /\ parseArgs = Unset.parseArgs
    /\ parseRes = Unset.parseRes
    /\ lexer = Unset.lexer
    /\ calls = Unset.calls

\* p, err := NewPath(input); pc tells whether the call returned
CallNewPath ==
    /\ pc = "start"
    /\ LET returns(r) == [outcome |-> r.outcome, path |-> r.path, err |-> r.err]
       IN  compiled' = returns(NewPath(input))
    /\ pc' = CASE compiled'.outcome = "ok" -> "compiled"
               [] compiled'.outcome = "panic" -> "panicked"
               [] compiled'.outcome = "blocked" -> "blocked"
    /\ UNCHANGED <<input, doc, found, sliceArgs, sliceRes, cmpArgs, cmpRes,
                 parseArgs, parseRes, calls, lexer>>

\* CallFind with a Find that returns the node it was given when no node
\* matches
CallFindOrNode ==
    /\ pc = "compiled"
    /\ compiled.err.nil
    /\ \E d \in {Docs[k] : k \in DOMAIN Docs} :
          /\ doc' = d
          /\ LET orNode(r) == IF r = Nodes(<<>>) THEN Nodes(<<<<>>>>) ELSE r
             IN  found' = orNode(Find(compiled.path, d))
    /\ pc' = "found"
    /\ UNCHANGED <<input, compiled, sliceArgs, sliceRes, cmpArgs, cmpRes,
                 parseArgs, parseRes, calls, lexer>>

\* p.Find(&doc), after NewPath returned without error
CallFind ==
    /\ pc = "compiled"
    /\ compiled.err.nil
    /\ \E d \in {Docs[k] : k \in DOMAIN Docs} :
          /\ doc' = d
          /\ found' = Find(compiled.path, d)
    /\ pc' = "found"
    /\ UNCHANGED <<input, compiled, sliceArgs, sliceRes, cmpArgs, cmpRes,
                 parseArgs, parseRes, calls, lexer>>

Next == CallNewPath \/ CallFind

Spec == Init /\ [][Next]_vars

-----------------------------------------------------------------------------
(* The slice resolver on its own: slice is applied to the body of an array *)
(* subscript and the length of a sequence.                                 *)

\* the largest absolute value of a parameter of a subscript
MaxIndex == 5

\* the largest length of a sequence
MaxLength == 4

RECURSIVE Itoa(_)
\* the decimal text of an integer
Itoa(n) ==
    IF n < 0 THEN <<"-">> \o Itoa(0 - n)
    ELSE IF n < 10 THEN <<ToString(n)>>
    ELSE Itoa(n \div 10) \o <<ToString(n % 10)>>

\* the subscript bodies: a, a:b and a:b:c with blank or integer parameters,
\* the wildcard and two unions
SliceBodies ==
    LET parms == {<<>>} \cup {Itoa(k) : k \in (0 - MaxIndex)..MaxIndex}
    IN  (parms \ {<<>>})
        \cup {a \o <<":">> \o b : a \in parms, b \in parms}
        \cup {a \o <<":">> \o b \o <<":">> \o c : a \in parms, b \in parms, c \in parms}
        \cup {<<"*">>, <<"0", ",", "1">>, <<"1", ":", ",", "-", "1">>}

InitSlice ==
    /\ pc = "slice"
    /\ sliceArgs \in [index : SliceBodies, length : 0..MaxLength]
    /\ sliceRes = Unset.sliceRes
    /\ input = <<>>
    /\ compiled = Unset.compiled
    /\ doc = Unset.doc
    /\ found = Unset.found
    /\ cmpArgs = Unset.cmpArgs
    /\ cmpRes = Unset.cmpRes
    /\ parseArgs = Unset.parseArgs
    /\ parseRes = Unset.parseRes
    /\ lexer = Unset.lexer
    /\ calls = Unset.calls

\* sl, err := slice(index, length)
CallSlice ==
    /\ pc = "slice"
    /\ sliceRes' = slice(sliceArgs.index, sliceArgs.length)
    /\ pc' = "sliced"
    /\ UNCHANGED <<input, compiled, doc, found, sliceArgs, cmpArgs, cmpRes,
                 parseArgs, parseRes, calls, lexer>>

NextSlice == CallSlice

SpecSlice == InitSlice /\ [][NextSlice]_vars

-----------------------------------------------------------------------------
(* A comparison filter on its own: the filter nodeToFilter returns is      *)
(* applied to the typed values its two scanners produced.                  *)

\* the largest number of values a scanner produces
MaxVals == 2

\* the comparison operators, the values the scanners of a path and of a
\* literal produce, and the regular expression `=~` is given
FilterInputs ==
    LET tvals == {typedValue("int", <<"1">>), typedValue("int", <<"2">>),
                  typedValue("string", <<"x">>), typedValue("string", <<"1">>),
                  typedValue("string", <<"2">>)}
    IN  [ops |-> {"FilterEquality", "FilterInequality", "FilterGreaterThan",
                  "FilterGreaterThanOrEqual", "FilterLessThan", "FilterLessThanOrEqual"},
         \* the spellings of the booleans and of null
         booleans |-> {<<"t", "r", "u", "e">>, <<"T", "r", "u", "e">>, <<"T", "R", "U", "E">>,
                       <<"f", "a", "l", "s", "e">>, <<"F", "a", "l", "s", "e">>},
         nulls |-> {<<"n", "u", "l", "l">>, <<"N", "u", "l", "l">>, <<"N", "U", "L", "L">>,
                    <<"~">>},
         regular |-> <<typedValue("regularExpression", <<"x">>)>>,
         lists |-> UNION {[1..n -> tvals] : n \in 0..MaxVals}]

\* the lists of values of the filter: those of FilterInputs, and one boolean
\* or one null in each of its spellings
FilterLists ==
    FilterInputs.lists \cup {<<typedValue("boolean", v)>> : v \in FilterInputs.booleans}
                       \cup {<<typedValue("null", v)>> : v \in FilterInputs.nulls}

\* a comparison of two lists of values, or the match of a list of values
\* with a regular expression literal
InitFilter ==
    /\ pc = "filter"
    /\ cmpArgs \in [op : FilterInputs.ops, lhs : FilterLists, rhs : FilterLists] \cup
                   [op : {"matches"}, lhs : FilterLists, rhs : {FilterInputs.regular}]
    /\ cmpRes = Unset.cmpRes
    /\ parseArgs = Unset.parseArgs
    /\ parseRes = Unset.parseRes
    /\ lexer = Unset.lexer
    /\ calls = Unset.calls
    /\ input = <<>>
    /\ compiled = Unset.compiled
    /\ doc = Unset.doc
    /\ found = Unset.found
    /\ sliceArgs = Unset.sliceArgs
    /\ sliceRes = Unset.sliceRes

\* a variant of the filter in which match starts as true
CallFilterMatchTrue ==
    /\ pc = "filter"
    /\ cmpRes' = nodeToFilterLoop(cmpArgs.op, cmpArgs.lhs, cmpArgs.rhs, 1, 1, TRUE)
    /\ pc' = "filtered"
    /\ UNCHANGED <<input, compiled, doc, found, sliceArgs, sliceRes, cmpArgs,
                 parseArgs, parseRes, calls, lexer>>

\* result := filter(node, root), for the filter comparisonFilter or
\* matchRegularExpression built
CallFilter ==
    /\ pc = "filter"
    /\ cmpRes' = nodeToFilterLoop(cmpArgs.op, cmpArgs.lhs, cmpArgs.rhs, 1, 1, FALSE)
    /\ pc' = "filtered"
    /\ UNCHANGED <<input, compiled, doc, found, sliceArgs, sliceRes, cmpArgs,
                 parseArgs, parseRes, calls, lexer>>

NextFilter == CallFilter

SpecFilter == InitFilter /\ [][NextFilter]_vars

-----------------------------------------------------------------------------
(* The filter parser on its own: newFilterNode is applied to the lexemes   *)
(* of a filter expression.                                                 *)

\* the largest number of basic filters in a filter expression
MaxTerms == 3

\* the lexemes of filter expressions: basic filters (a term, a comparison, a
\* negation of either), a basic filter in parentheses, a disjunction in
\* parentheses and terms with a nested filter
ParseInputs ==
    LET at(name) == <<Lexeme("FilterAt", <<"@">>), Lexeme("DotChild", <<".", name>>)>>
        one == <<Lexeme("FilterIntegerLiteral", <<"1">>)>>
        negation == <<Lexeme("FilterNot", <<"!">>)>>
        plain == {at("a"), at("b")} \cup
                 {at("a") \o <<c>> \o one :
                     c \in {Lexeme("FilterGreaterThan", <<">">>),
                            Lexeme("FilterEquality", <<"=", "=">>)}}
        basic == plain \cup {negation \o t : t \in plain}
        opening == <<Lexeme("FilterOpenBracket", <<"(">>)>>
        closing == <<Lexeme("FilterCloseBracket", <<")">>)>>
        disjunction == <<Lexeme("FilterOr", <<"|", "|">>)>>
        block(head) == <<head, Lexeme("DotChild", <<".", "a">>),
                         Lexeme("FilterBegin", <<"[", "?", "(">>), head,
                         Lexeme("DotChild", <<".", "b">>),
                         Lexeme("FilterEnd", <<")", "]">>)>>
    IN  [basic |-> basic,
         bracketed |-> {opening \o t \o closing :
                           t \in {at("a"), at("a") \o disjunction \o at("b")}},
         \* a subpath of `@` or `$` with a nested filter, alone, followed by a
         \* child and compared with a literal
         nested |-> {block(h) \o t :
                        h \in {Lexeme("FilterAt", <<"@">>), Lexeme("Root", <<"$">>)},
                        t \in {<<>>, <<Lexeme("DotChild", <<".", "b">>)>>,
                               <<Lexeme("FilterEquality", <<"=", "=">>)>> \o one}},
         connectives |-> {disjunction, <<Lexeme("FilterAnd", <<"&", "&">>)>>}]

RECURSIVE FilterExprs(_)
\* the filter expressions of at most n basic filters
FilterExprs(n) ==
    IF n = 0 THEN {<<>>}
    ELSE LET shorter == FilterExprs(n - 1)
             terms == ParseInputs.basic \cup ParseInputs.bracketed
         IN  shorter \cup terms \cup
             {e \o c \o t : e \in shorter \ {<<>>}, c \in ParseInputs.connectives,
                            t \in terms}

InitParse ==
    /\ pc = "parse"
    /\ parseArgs \in FilterExprs(MaxTerms) \cup ParseInputs.nested
    /\ parseRes = Unset.parseRes
    /\ lexer = Unset.lexer
    /\ calls = Unset.calls
    /\ input = <<>>
    /\ compiled = Unset.compiled
    /\ doc = Unset.doc
    /\ found = Unset.found
    /\ sliceArgs = Unset.sliceArgs
    /\ sliceRes = Unset.sliceRes
    /\ cmpArgs = Unset.cmpArgs
    /\ cmpRes = Unset.cmpRes

\* tree := newFilterNode(lexemes); pc tells whether the call returned
CallNewFilterNode ==
    /\ pc = "parse"
    /\ parseRes' = newFilterNode(parseArgs)
    /\ pc' = IF parseRes'.panic THEN "panicked" ELSE "parsed"
    /\ UNCHANGED <<input, compiled, doc, found, sliceArgs, sliceRes, cmpArgs, cmpRes,
                 parseArgs, calls, lexer>>

NextParse == CallNewFilterNode

SpecParse == InitParse /\ [][NextParse]_vars

-----------------------------------------------------------------------------
(* Concurrent use of a compiled path: goroutines call Find on the one Path *)
(* NewPath returned.  A call applies the matchers of the path one after    *)
(* the other to the nodes found so far; what it has found is local to the  *)
(* call, the Path and the documents are shared.                            *)

\* the number of goroutines that call Find
MaxCalls == 2

RECURSIVE matcherAt(_, _)
\* the Path that remains after the first k matchers of p
matcherAt(p, k) == IF k = 0 THEN p ELSE matcherAt(p.p, k - 1)

InitConcurrent ==
    /\ input \in {r \o s : r \in Frag.roots, s \in StepSeqs(1)} \cup
                 {<<"$", ".", "s">> \o tok.bracketFilter \o f \o <<")", "]">> \o a :
                     f \in Frag.bodies, a \in Frag.after}
    /\ pc = "start"
    /\ calls = [g \in 1..MaxCalls |->
                    [state |-> "idle", doc |-> Unset.doc, depth |-> 0, nodes |-> <<>>]]
    /\ compiled = Unset.compiled
    /\ doc = Unset.doc
    /\ found = Unset.found
    /\ sliceArgs = Unset.sliceArgs
    /\ sliceRes = Unset.sliceRes
    /\ cmpArgs = Unset.cmpArgs
    /\ cmpRes = Unset.cmpRes
    /\ parseArgs = Unset.parseArgs
    /\ parseRes = Unset.parseRes
    /\ lexer = Unset.lexer

\* go p.Find(&d): goroutine g enters Find with a document
GoFind(g) ==
    /\ pc = "compiled"
    /\ compiled.err.nil
    /\ calls[g].state = "idle"
    /\ \E d \in {Docs.store, Docs.sequence, Docs.mappingNode} :
          calls' = [calls EXCEPT ![g] = [state |-> "running", doc |-> d, depth |-> 0,
                                         nodes |-> <<<<>>>>]]
    /\ UNCHANGED <<input, pc, compiled, doc, found, sliceArgs, sliceRes, cmpArgs, cmpRes,
                   parseArgs, parseRes, lexer>>

\* a variant of StepFind in which a matcher, once applied, is removed from
\* the Path the goroutines share
StepFindConsuming(g) ==
    /\ pc = "compiled"
    /\ calls[g].state = "running"
    /\ LET c == calls[g]
           last(p) == p.op \in {"identity", "empty", "nil"}
           head(p) == IF last(p) THEN p ELSE [p EXCEPT !.p = identityPath]
           step(p, r) ==
               IF r.outcome # "ok"
               THEN /\ calls' = [calls EXCEPT ![g].state = "panicked"]
                    /\ pc' = "panicked"
                    /\ UNCHANGED compiled
               ELSE /\ calls' = [calls EXCEPT ![g].state = IF last(p) THEN "returned"
                                                           ELSE "running",
                                               ![g].depth = IF last(p) THEN @ ELSE 0,
                                               ![g].nodes = r.nodes]
                    /\ compiled' = [compiled EXCEPT !.path = IF last(p) THEN p ELSE p.p]
                    /\ UNCHANGED pc
           at(p) == step(p, compose(c.nodes, head(p), c.doc, <<>>))
       IN  at(matcherAt(compiled.path, c.depth))
    /\ UNCHANGED <<input, doc, found, sliceArgs, sliceRes, cmpArgs, cmpRes, parseArgs,
                   parseRes, lexer>>

\* goroutine g applies the next matcher of the Path to the nodes it has
\* found, each with the matchers that follow replaced by identity; after the
\* last matcher Find returns
StepFind(g) ==
    /\ pc = "compiled"
    /\ calls[g].state = "running"
    /\ LET c == calls[g]
           last(p) == p.op \in {"identity", "empty", "nil"}
           head(p) == IF last(p) THEN p ELSE [p EXCEPT !.p = identityPath]
           step(p, r) ==
               IF r.outcome # "ok"
               THEN /\ calls' = [calls EXCEPT ![g].state = "panicked"]
                    /\ pc' = "panicked"
               ELSE /\ calls' = [calls EXCEPT ![g].state = IF last(p) THEN "returned"
                                                           ELSE "running",
                                               ![g].depth = @ + 1,
                                               ![g].nodes = r.nodes]
                    /\ UNCHANGED pc
           at(p) == step(p, compose(c.nodes, head(p), c.doc, <<>>))
       IN  at(matcherAt(compiled.path, c.depth))
    /\ UNCHANGED <<input, compiled, doc, found, sliceArgs, sliceRes, cmpArgs, cmpRes,
                   parseArgs, parseRes, lexer>>

NextConcurrent == CallNewPath \/ \E g \in 1..MaxCalls : GoFind(g) \/ StepFind(g)

SpecConcurrent == InitConcurrent /\ [][NextConcurrent]_vars

-----------------------------------------------------------------------------
(* The lexer on its own: a client calls nextLexeme until it returns EOF.   *)
(* A step is one turn of the loop of nextLexeme: a lexeme is received from *)
(* the items channel, or the channel is empty and the state function runs, *)
(* or the channel is empty and the state is nil.                           *)

InitLex ==
    /\ input = <<>>
    /\ lexer = Unset.lexer
    /\ pc = "start"
    /\ compiled = Unset.compiled
    /\ doc = Unset.doc
    /\ found = Unset.found
    /\ sliceArgs = Unset.sliceArgs
    /\ sliceRes = Unset.sliceRes
    /\ cmpArgs = Unset.cmpArgs
    /\ cmpRes = Unset.cmpRes
    /\ parseArgs = Unset.parseArgs
    /\ parseRes = Unset.parseRes
    /\ calls = Unset.calls

\* l := lex(name, path), for a path expression the client was given
CallLex ==
    /\ pc = "start"
    /\ input' \in Inputs
    /\ lexer' = lex(input')
    /\ pc' = "lexing"
    /\ UNCHANGED <<compiled, doc, found, sliceArgs, sliceRes, cmpArgs, cmpRes, parseArgs,
                   parseRes, calls>>

\* case item := <-l.items: nextLexeme returns the item
Receive ==
    /\ pc = "lexing"
    /\ ~lexer.blocked
    /\ Len(lexer.items) > 0
    /\ lexer' = [lexer EXCEPT !.items = Tail(@)]
    /\ pc' = IF Head(lexer.items).typ = "EOF" THEN "done" ELSE "lexing"
    /\ UNCHANGED <<input, compiled, doc, found, sliceArgs, sliceRes, cmpArgs, cmpRes,
                   parseArgs, parseRes, calls>>

\* default: l.state = l.state(l); a send to the full channel never returns
RunState ==
    /\ pc = "lexing"
    /\ ~lexer.blocked
    /\ Len(lexer.items) = 0
    /\ lexer.state # "nil"
    /\ lexer' = runState(lexer)
    /\ UNCHANGED <<input, pc, compiled, doc, found, sliceArgs, sliceRes, cmpArgs, cmpRes,
                   parseArgs, parseRes, calls>>

\* default, with l.state == nil: nextLexeme returns EOF
ReturnEOF ==
    /\ pc = "lexing"
    /\ ~lexer.blocked
    /\ Len(lexer.items) = 0
    /\ lexer.state = "nil"
    /\ pc' = "done"
    /\ UNCHANGED <<input, compiled, doc, found, sliceArgs, sliceRes, cmpArgs, cmpRes,
                   parseArgs, parseRes, calls, lexer>>

NextLex == CallLex \/ Receive \/ RunState \/ ReturnEOF

\* RunState can be taken: the loop of nextLexeme is at its default case with
\* a state function to run, and the goroutine is not parked on a send.  Every
\* state function changes the lexer, so this is ENABLED <<RunState>>_vars.
RunStateEnabled ==
    /\ pc = "lexing"
    /\ ~lexer.blocked
    /\ Len(lexer.items) = 0
    /\ lexer.state # "nil"

\* the client keeps calling nextLexeme, and the loop of nextLexeme keeps
\* turning: every step is weakly fair.  The weak fairness of RunState is
\* written out, WF_vars(RunState) with its enabling condition given by
\* RunStateEnabled.
SpecLex ==
    /\ InitLex
    /\ [][NextLex]_vars
    /\ WF_vars(CallLex)
    /\ WF_vars(Receive)
    /\ WF_vars(ReturnEOF)
    /\ ([]<>(~RunStateEnabled) \/ []<><<RunState>>_vars)

-----------------------------------------------------------------------------
(* Properties of the compiler and the evaluator.                           *)

\* C1: whenever NewPath returns a non-nil error the *Path it returns is nil,
\* wherever in the lexeme stream the failure is detected
C1_NoPathOnError ==
    (pc = "compiled" /\ ~compiled.err.nil) => compiled.path.op = "nil"

\* NewPath returned an error
C1_ErrorReturned == pc = "compiled" /\ ~compiled.err.nil

RECURSIVE lexError(_)
\* the text of the Error lexeme the lexer emits when it is drained, if any
lexError(l) ==
    LET after(r) ==
            IF r.lx.typ \in {"Blocked", "EOF"} THEN [present |-> FALSE, msg |-> <<>>]
            ELSE IF r.lx.typ = "Error" THEN [present |-> TRUE, msg |-> r.lx.val]
            ELSE lexError(r.l)
    IN  after(nextLexeme(l))

\* C2: when the lexer emits an Error lexeme, also between a FilterBegin and
\* its FilterEnd, NewPath fails with exactly the text of that lexeme
C2_ErrorTextUnchanged ==
    LET holds(e) == e.present => (~compiled.err.nil /\ compiled.err.msg = e.msg)
    IN  pc = "compiled" => holds(lexError(lex(input)))

\* NewPath returned the text of an Error lexeme of the lexer as its error
C2_ErrorSurfaced ==
    LET same(e) == e.present /\ ~compiled.err.nil /\ compiled.err.msg = e.msg
    IN  pc = "compiled" /\ same(lexError(lex(input)))

\* C3: NewPath never panics, it returns normally for every input string
C3_NewPathReturns == pc \notin {"panicked", "blocked"}

\* NewPath returned a compiled path for an expression with a filter
C3_FilterCompiled ==
    /\ pc = "compiled"
    /\ compiled.err.nil
    /\ compiled.path.op = "root"
    /\ compiled.path.p.op = "filter"

\* C4: Find returns normally for every compiled path and every node, a
\* matcher applied to a node of another kind contributing nothing
C4_FindReturns == pc = "found" => found.outcome = "ok"

\* Find returned nothing for a child step applied to a sequence
C4_ChildOfSequence ==
    /\ pc = "found"
    /\ input = <<"$", ".", "a">>
    /\ doc = Docs.sequence
    /\ found = Nodes(<<>>)

\* C5: a named child step on a Mapping selects the value paired with the
\* first key equal to the name, comparing key positions only, and selects
\* nothing when no key equals the name
C5_ChildByKey ==
    \A name \in {"a", "b", "c"} :
        (/\ pc = "found"
         /\ input = <<"$", ".", name>>
         /\ doc.Kind = "DocumentNode"
         /\ doc.Content[1].Kind = "MappingNode")
        => LET m == doc.Content[1].Content
               keys == {i \in 1..Len(m) : i % 2 = 1 /\ m[i].Value = <<name>>}
           IN  found = IF keys = {} THEN Nodes(<<>>)
                       ELSE Nodes(<<<<1, 1 + CHOOSE i \in keys : \A j \in keys : i <= j>>>>)

\* `$.b` selected the value of the key b of a mapping
C5_ValueOfKey ==
    /\ pc = "found"
    /\ input = <<"$", ".", "b">>
    /\ doc = Docs.store
    /\ found = Nodes(<<<<1, 4>>>>)

\* C6: every index the slice resolver produces for a sequence of length N is
\* at least 0 and less than N
C6_IndicesInRange ==
    (pc = "sliced" /\ sliceRes.err.nil) =>
        \A k \in 1..Len(sliceRes.slice) :
            0 <= sliceRes.slice[k] /\ sliceRes.slice[k] < sliceArgs.length

\* the resolver produced the indices of a slice with a negative step
C6_Reversed ==
    /\ pc = "sliced"
    /\ sliceArgs = [index |-> <<":", ":", "-", "1">>, length |-> 3]
    /\ sliceRes.slice = <<2, 1, 0>>

\* C7: a comparison filter holds only if every pair of a left and a right
\* value passes the compatibility check and is accepted by the comparator
C7_EveryPairPasses ==
    (pc = "filtered" /\ cmpRes) =>
        \A i \in 1..Len(cmpArgs.lhs), j \in 1..Len(cmpArgs.rhs) :
            /\ compatibleWith(cmpArgs.lhs[i].typ, cmpArgs.rhs[j].typ)
            /\ comparator(cmpArgs.op,
                          compareNodeValues(cmpArgs.lhs[i].val, cmpArgs.rhs[j].val))

\* a comparison of two values with two values held
C7_AllPairsHeld ==
    /\ pc = "filtered"
    /\ cmpRes
    /\ Len(cmpArgs.lhs) = 2
    /\ Len(cmpArgs.rhs) = 2

\* C8: a `$` subpath in a filter is evaluated against the root given to
\* Find and `@` against the element being filtered: on the store document
\* `$.s[?($.a)]` selects every element of s and `$.s[?(@.a==$.a)]` the
\* elements whose a equals the a of the root
C8_RootInFilter ==
    LET rootExists == <<"$", ".", "s", "[", "?", "(", "$", ".", "a", ")", "]">>
        rootEqual == <<"$", ".", "s", "[", "?", "(", "@", ".", "a", "=", "=", "$", ".",
                       "a", ")", "]">>
    IN  input \in {rootExists, rootEqual} =>
            /\ pc \notin {"panicked", "blocked"}
            /\ (pc = "found" /\ doc = Docs.store) =>
                   found = IF input = rootExists
                           THEN Nodes(<<<<1, 6, 1>>, <<1, 6, 2>>, <<1, 6, 3>>, <<1, 6, 4>>>>)
                           ELSE Nodes(<<<<1, 6, 1>>>>)

\* a filter with an `@` subpath selected the elements it holds for
C8_CurrentInFilter ==
    /\ pc = "found"
    /\ input = <<"$", ".", "s", "[", "?", "(", "@", ".", "a", "=", "=", "1", ")", "]">>
    /\ doc = Docs.store
    /\ found = Nodes(<<<<1, 6, 1>>>>)

C10_WildcardValues ==
    (/\ pc = "found"
     /\ input = <<"$", ".", "*">>
     /\ doc.Kind = "DocumentNode"
     /\ doc.Content[1].Kind = "MappingNode")
    => found = Nodes([k \in 1..(Len(doc.Content[1].Content) \div 2) |-> <<1, 2 * k>>])

\* `$.*` was applied to a mapping and returned nodes
C10_WildcardOnMapping ==
    /\ pc = "found"
    /\ input = <<"$", ".", "*">>
    /\ doc = Docs.store
    /\ found.outcome = "ok"
    /\ Len(found.nodes) > 0

-----------------------------------------------------------------------------
(* Properties of the comparison of typed values.                           *)

C12_StringsCompareTextually ==
    (/\ pc = "filtered"
     /\ Len(cmpArgs.lhs) = 1
     /\ Len(cmpArgs.rhs) = 1
     /\ cmpArgs.lhs[1].typ = "string"
     /\ cmpArgs.rhs[1].typ = "string")
    => cmpRes = comparator(cmpArgs.op,
                           IF cmpArgs.lhs[1].val = cmpArgs.rhs[1].val THEN "compareEqual"
                           ELSE "compareIncomparable")

\* the string "x" was compared with itself by `==` and the filter held
C12_SameString ==
    /\ pc = "filtered"
    /\ cmpArgs = [op |-> "FilterEquality", lhs |-> <<typedValue("string", <<"x">>)>>,
                  rhs |-> <<typedValue("string", <<"x">>)>>]
    /\ cmpRes

\* C13: a comparison filter whose left side or right side yields no values
\* is false, for each of the six comparators and for the match of a regular
\* expression
C13_EmptySideIsFalse ==
    (pc = "filtered" /\ (cmpArgs.lhs = <<>> \/ cmpArgs.rhs = <<>>)) => ~cmpRes

\* `!=` was applied to a value on the left and no value on the right
C13_NothingOnTheRight ==
    /\ pc = "filtered"
    /\ cmpArgs.op = "FilterInequality"
    /\ Len(cmpArgs.lhs) = 1
    /\ cmpArgs.rhs = <<>>
    /\ ~cmpRes

\* C14: `==` accepts exactly Equal, `!=` exactly the results other than
\* Equal, `>` exactly GreaterThan, `>=` exactly GreaterThan and Equal, `<`
\* exactly LessThan, `<=` exactly LessThan and Equal, and each comparison
\* lexeme type has the comparator of its name
C14_TruthTable ==
    (/\ pc = "filtered"
     /\ cmpArgs.op # "matches"
     /\ Len(cmpArgs.lhs) = 1
     /\ Len(cmpArgs.rhs) = 1
     /\ cmpArgs.lhs[1].typ = cmpArgs.rhs[1].typ)
    => LET accepted(op) ==
               CASE op = "FilterEquality" -> {"compareEqual"}
                 [] op = "FilterInequality" ->
                        {"compareGreaterThan", "compareLessThan", "compareIncomparable"}
                 [] op = "FilterGreaterThan" -> {"compareGreaterThan"}
                 [] op = "FilterGreaterThanOrEqual" ->
                        {"compareGreaterThan", "compareEqual"}
                 [] op = "FilterLessThan" -> {"compareLessThan"}
                 [] op = "FilterLessThanOrEqual" -> {"compareLessThan", "compareEqual"}
       IN  cmpRes = (compareNodeValues(cmpArgs.lhs[1].val, cmpArgs.rhs[1].val)
                         \in accepted(cmpArgs.op))

\* `!=` was applied to two strings that are Incomparable and held
C14_IncomparableNotEqual ==
    /\ pc = "filtered"
    /\ cmpArgs = [op |-> "FilterInequality", lhs |-> <<typedValue("string", <<"x">>)>>,
                  rhs |-> <<typedValue("string", <<"1">>)>>]
    /\ compareNodeValues(<<"x">>, <<"1">>) = "compareIncomparable"
    /\ cmpRes

-----------------------------------------------------------------------------
(* Properties of the matchers and of the lexer's implicit root.            *)

\* C15: a bracket child with the names b and a, applied to a Mapping, yields
\* the value of the key b and then the value of the key a, in the order of
\* the path whatever the order of the keys in the document
C15_BracketChildrenInPathOrder ==
    (/\ pc = "found"
     /\ input = <<"$", "[", "'", "b", "'", ",", "'", "a", "'", "]">>
     /\ doc.Kind = "DocumentNode"
     /\ doc.Content[1].Kind = "MappingNode")
    => LET m == doc.Content[1].Content
           keys(name) == {i \in 1..Len(m) : i % 2 = 1 /\ m[i].Value = <<name>>}
           valueOf(name) ==
               IF keys(name) = {} THEN <<>>
               ELSE <<<<1, 1 + CHOOSE i \in keys(name) : \A j \in keys(name) : i <= j>>>>
       IN  found = Nodes(valueOf("b") \o valueOf("a"))

\* a bracket child with one name selected the value of that key
C15_OneName ==
    /\ pc = "found"
    /\ input = <<"$", "[", "'", "a", "'", "]">>
    /\ doc = Docs.store
    /\ found = Nodes(<<<<1, 2>>>>)

\* C16, as the code has it: for every non-empty expression s that does not
\* begin with `$`, NewPath(s) and NewPath("$" + s) end the same way, both fail
\* or both succeed, and when they succeed the two compiled paths return the
\* same node list on the document given to Find
C16_ImplicitRoot ==
    LET same(r) ==
            /\ pc = "panicked" => r.outcome = "panic"
            /\ pc = "blocked" => r.outcome = "blocked"
            /\ pc \in {"compiled", "found"} =>
                   (r.outcome = "ok" /\ (r.err.nil <=> compiled.err.nil))
            /\ pc = "found" => Find(r.path, doc) = found
    IN  (pc # "start" /\ input # <<>> /\ input[1] # tok.root[1]) =>
            same(NewPath(tok.root \o input))

\* `.a` was compiled without a leading `$` and selected the value of a
C16_RootPrepended ==
    /\ pc = "found"
    /\ input = <<".", "a">>
    /\ doc = Docs.store
    /\ found = Nodes(<<<<1, 2>>>>)

\* C16: for every expression s that does not begin with `$`, the empty one
\* included, NewPath(s) and NewPath("$" + s) both fail or both succeed, and
\* when they succeed they return the same node list on every document
C16_ImplicitRootAlways ==
    LET same(r) ==
            /\ pc \in {"compiled", "found"} =>
                   (r.outcome = "ok" /\ (r.err.nil <=> compiled.err.nil))
            /\ pc = "found" => Find(r.path, doc) = found
    IN  (pc # "start" /\ (input = <<>> \/ input[1] # tok.root[1])) =>
            same(NewPath(tok.root \o input))

\* C17: when the matchers of a path up to some step select nothing in a
\* document, the steps that follow select nothing either and Find returns an
\* empty list
C17_EmptyPropagates ==
    LET rest == {s \o t : s \in Frag.steps \cup {<<>>},
                          t \in Frag.steps \cup (Frag.after \ {<<>>})}
        nothing(r) == r.outcome = "ok" /\ r.err.nil /\ Find(r.path, doc) = Nodes(<<>>)
    IN  pc = "found" =>
            \A k \in 0..(Len(input) - 1) :
                (/\ SubSeq(input, k + 1, Len(input)) \in rest
                 /\ nothing(NewPath(SubSeq(input, 1, k))))
                => found = Nodes(<<>>)

\* `$.b` selected nothing in a sequence and `$.b.a` returned an empty list
C17_NothingAfterNothing ==
    /\ pc = "found"
    /\ input = <<"$", ".", "b", ".", "a">>
    /\ doc = Docs.sequence
    /\ Find(NewPath(<<"$", ".", "b">>).path, doc) = Nodes(<<>>)
    /\ found = Nodes(<<>>)

-----------------------------------------------------------------------------
(* Properties of the filter parser.                                        *)

\* C18: `&&` binds tighter than `||`: for basic filters a, b and c the
\* lexemes of `a || b && c` parse to Or(a, And(b, c)) and the lexemes of
\* `a && b || c` to Or(And(a, b), c)
C18_AndBindsTighter ==
    LET orLexeme == Lexeme("FilterOr", <<"|", "|">>)
        andLexeme == Lexeme("FilterAnd", <<"&", "&">>)
        node(lx, l, r) == filterNode(lx, <<>>, <<l, r>>)
        tree(t) == newFilterNode(t).tree
        parsedTo(t) == parseRes = [panic |-> FALSE, tree |-> t]
    IN  pc # "parse" =>
            \A a, b, c \in ParseInputs.basic :
                /\ parseArgs = a \o <<orLexeme>> \o b \o <<andLexeme>> \o c
                   => parsedTo(node(orLexeme, tree(a),
                                    node(andLexeme, tree(b), tree(c))))
                /\ parseArgs = a \o <<andLexeme>> \o b \o <<orLexeme>> \o c
                   => parsedTo(node(orLexeme, node(andLexeme, tree(a), tree(b)),
                                    tree(c)))

\* the lexemes of `@.a || @.b && @.a` were parsed to a disjunction of @.a and
\* the conjunction of @.b and @.a
C18_DisjunctionOfConjunction ==
    LET at(name) == filterNode(Lexeme("FilterAt", <<"@">>),
                               <<Lexeme("DotChild", <<".", name>>)>>, <<>>)
    IN  /\ pc = "parsed"
        /\ Len(parseArgs) = 8
        /\ parseRes.tree =
               filterNode(Lexeme("FilterOr", <<"|", "|">>), <<>>,
                          <<at("a"), filterNode(Lexeme("FilterAnd", <<"&", "&">>), <<>>,
                                                <<at("b"), at("a")>>)>>)

\* C19: a comparison operator that follows a negated term applies to the
\* operand of the negation: the lexemes of `!@.a > 1` parse to
\* Not(GreaterThan(@.a, 1)), and likewise for `==`
C19_NegationOfComparison ==
    LET negation == Lexeme("FilterNot", <<"!">>)
        at == Lexeme("FilterAt", <<"@">>)
        child == Lexeme("DotChild", <<".", "a">>)
        one == Lexeme("FilterIntegerLiteral", <<"1">>)
    IN  \A c \in {Lexeme("FilterGreaterThan", <<">">>), Lexeme("FilterEquality", <<"=", "=">>)} :
            (pc # "parse" /\ parseArgs = <<negation, at, child, c, one>>) =>
                parseRes =
                    [panic |-> FALSE,
                     tree |-> filterNode(negation, <<>>,
                                  <<filterNode(c, <<>>, <<filterNode(at, <<child>>, <<>>),
                                                          filterNode(one, <<>>, <<>>)>>)>>)]

\* the lexemes of `!@.a > 1` were parsed to a tree with a negation at its top
C19_NegationOnTop ==
    /\ pc = "parsed"
    /\ Len(parseArgs) = 5
    /\ parseArgs[1].typ = "FilterNot"
    /\ parseArgs[4].typ = "FilterGreaterThan"
    /\ parseRes.tree.lexeme.typ = "FilterNot"
    /\ parseRes.tree.children[1].lexeme.typ = "FilterGreaterThan"

\* C20: parentheses disappear from the parse tree: the lexemes of `(e)` parse
\* to the tree of e, and that tree is a single operand of the enclosing
\* operator, so that `(a || b) && c` parses to And(Or(a, b), c)
C20_ParenthesesDisappear ==
    LET opening == Lexeme("FilterOpenBracket", <<"(">>)
        closing == Lexeme("FilterCloseBracket", <<")">>)
        andLexeme == Lexeme("FilterAnd", <<"&", "&">>)
        tree(t) == newFilterNode(t).tree
        parsedTo(t) == parseRes = [panic |-> FALSE, tree |-> t]
    IN  (pc # "parse" /\ parseArgs # <<>> /\ parseArgs[1] = opening) =>
            \A k \in 2..Len(parseArgs) :
                parseArgs[k] = closing =>
                    /\ k = Len(parseArgs) => parsedTo(tree(SubSeq(parseArgs, 2, k - 1)))
                    /\ \A c \in ParseInputs.basic :
                           SubSeq(parseArgs, k + 1, Len(parseArgs)) = <<andLexeme>> \o c
                           => parsedTo(filterNode(andLexeme, <<>>,
                                           <<tree(SubSeq(parseArgs, 2, k - 1)), tree(c)>>))

\* newFilterNode was given the lexemes of `(@.a || @.b) && @.a`
C20_BracketedDisjunction ==
    /\ pc # "parse"
    /\ Len(parseArgs) = 10
    /\ parseArgs[1].typ = "FilterOpenBracket"
    /\ parseArgs[4].typ = "FilterOr"
    /\ parseArgs[7].typ = "FilterCloseBracket"
    /\ parseArgs[8].typ = "FilterAnd"

\* C21: when a filter term is an `@` or `$` subpath with a nested filter, the
\* block from its FilterBegin through its FilterEnd is recorded, unchanged
\* and in order, in the subpath of the term
C21_NestedFilterRecorded ==
    (pc # "parse" /\ parseArgs \in ParseInputs.nested) =>
        LET term(t) == IF t.children = <<>> THEN t ELSE t.children[1] IN
        /\ ~parseRes.panic
        /\ term(parseRes.tree).lexeme = parseArgs[1]
        /\ Len(term(parseRes.tree).subpath) >= 5
        /\ SubSeq(term(parseRes.tree).subpath, 1, 5) = SubSeq(parseArgs, 2, 6)

\* the lexemes of `@.a[?(@.b)]==1` were parsed to a tree
C21_NestedFilterParsed ==
    /\ pc = "parsed"
    /\ Len(parseArgs) = 8
    /\ parseArgs[1].typ = "FilterAt"
    /\ parseArgs[3].typ = "FilterBegin"
    /\ parseArgs[7].typ = "FilterEquality"
    /\ parseRes.tree.lexeme.typ = "FilterAt"

-----------------------------------------------------------------------------
(* Properties of the lexer.                                                *)

RECURSIVE lexAll(_)
\* the lexemes nextLexeme returns, up to and including the first EOF or
\* Error lexeme, or up to the call that does not return
lexAll(l) ==
    LET after(r) ==
            IF r.lx.typ = "Blocked" THEN <<>>
            ELSE IF r.lx.typ \in {"EOF", "Error"} THEN <<r.lx>>
            ELSE <<r.lx>> \o lexAll(r.l)
    IN  after(nextLexeme(l))

\* C22: the lexer emits an Error lexeme for every `>`, `>=`, `<` or `<=`
\* whose preceding token or next non-space token is a string literal, and no
\* such operator lexeme is ever next to a string literal lexeme
C22_NoOrderingOfStrings ==
    LET ordering == {"FilterGreaterThan", "FilterGreaterThanOrEqual", "FilterLessThan",
                     "FilterLessThanOrEqual"}
        operators == {<<">">>, <<">", "=">>, <<"<">>, <<"<", "=">>}
        strings == {t \in Frag.lhs \cup Frag.rhs : TrimSpace(t) = <<"'", "x", "'">>}
        written == {l \o o \o r : l \in Frag.lhs, o \in operators, r \in Frag.rhs} \
                   {l \o o \o r : l \in Frag.lhs \ strings, o \in operators,
                                  r \in Frag.rhs \ strings}
        apart(ls) ==
            \A i \in 1..Len(ls) :
                ls[i].typ \in ordering =>
                    /\ i > 1 => ls[i - 1].typ # "FilterStringLiteral"
                    /\ i < Len(ls) => ls[i + 1].typ # "FilterStringLiteral"
        rejected(ls) == ls # <<>> /\ ls[Len(ls)].typ = "Error"
        checked(ls) ==
            /\ apart(ls)
            /\ (\E r \in Frag.roots, b \in Frag.before, f \in written, e \in Frag.ends,
                   a \in Frag.after : input = r \o b \o tok.bracketFilter \o f \o e \o a)
               => rejected(ls)
    IN  pc # "start" => checked(lexAll(lex(input)))

\* NewPath was given `$[?('x'>1)]`, for which the lexer emits the error that
\* strings cannot be compared using >
C22_StringOnTheLeft ==
    LET rejects(e) == e.present /\ SubSeq(e.msg, 1, 2) = <<"strings cannot be compared using ", ">">>
    IN  /\ pc = "compiled"
        /\ input = <<"$", "[", "?", "(", "'", "x", "'", ">", "1", ")", "]">>
        /\ rejects(lexError(lex(input)))
        /\ ~compiled.err.nil

-----------------------------------------------------------------------------
(* Properties of the slice resolver.                                       *)

\* C23: for a subscript that is a single integer i and a sequence of length
\* N, slice returns no error and the empty list when i is out of range
\* (i >= N, or i < 0 and i + N < 0), and otherwise the one index i, or i + N
\* when i is negative
C23_SingleIndex ==
    \A i \in (0 - MaxIndex)..MaxIndex :
        (pc = "sliced" /\ sliceArgs.index = Itoa(i)) =>
            LET N == sliceArgs.length IN
            /\ sliceRes.err.nil
            /\ sliceRes.slice = IF i >= N \/ (i < 0 /\ i + N < 0) THEN <<>>
                                ELSE IF i >= 0 THEN <<i>>
                                ELSE <<i + N>>

\* slice resolved the subscript -1 on a sequence of three elements
C23_LastElement ==
    /\ pc = "sliced"
    /\ sliceArgs = [index |-> <<"-", "1">>, length |-> 3]
    /\ sliceRes.err.nil
    /\ sliceRes.slice = <<2>>

\* C24: a subscript whose written step is 0 fails with the error "array
\* index step value must be non-zero" and yields no result list
C24_ZeroStepFails ==
    LET zeroStep(parms) == Len(parms) = 3 /\ TrimSpace(parms[3]) = <<"0">> IN
    (pc = "sliced" /\ zeroStep(Split(sliceArgs.index, ":"))) =>
        /\ ~sliceRes.err.nil
        /\ sliceRes.err.msg = <<"array index step value must be non-zero">>
        /\ sliceRes.slice = <<>>

\* slice returned for the subscript 1:2:0
C24_ZeroStep ==
    /\ pc = "sliced"
    /\ sliceArgs.index = <<"1", ":", "2", ":", "0">>
    /\ sliceArgs.length = 3
    /\ sliceRes.slice = <<>>

\* C25: with a negative step on a sequence of length N a blank first
\* component resolves to N-1 and a blank second component to one position
\* before index 0, the indices being produced in descending order: `::-1`
\* yields N-1,...,0, `:0:-1` yields N-1,...,1 and `2::-1` yields 2,1,0
C25_NegativeStep ==
    LET N == sliceArgs.length
        down(from, to) == [k \in 1..(from - to + 1) |-> from - k + 1]
        yields(sl) == sliceRes.err.nil /\ sliceRes.slice = sl
    IN  pc = "sliced" =>
            /\ sliceArgs.index = <<":", ":", "-", "1">> => yields(down(N - 1, 0))
            /\ sliceArgs.index = <<":", "0", ":", "-", "1">> => yields(down(N - 1, 1))
            /\ (sliceArgs.index = <<"2", ":", ":", "-", "1">> /\ N >= 3) => yields(down(2, 0))

\* slice resolved `::-1` on a sequence of four elements in descending order
C25_WholeSequenceReversed ==
    /\ pc = "sliced"
    /\ sliceArgs = [index |-> <<":", ":", "-", "1">>, length |-> 4]
    /\ sliceRes.slice = <<3, 2, 1, 0>>

-----------------------------------------------------------------------------
(* Properties of the comparison of booleans and nulls, and symmetry.       *)

\* C26: two booleans, or two nulls, are equal exactly when they denote the
\* same value, whatever their spelling: `True`, `TRUE` and `true` are equal
\* to each other, and so are `Null`, `NULL`, `~` and `null`
C26_CanonicalBooleansAndNulls ==
    LET first(v) == IF v[1] \in {"t", "T"} THEN "true"
                    ELSE IF v[1] \in {"f", "F"} THEN "false"
                    ELSE "null"
    IN  (/\ pc = "filtered"
         /\ cmpArgs.op = "FilterEquality"
         /\ Len(cmpArgs.lhs) = 1
         /\ Len(cmpArgs.rhs) = 1
         /\ cmpArgs.lhs[1].typ = cmpArgs.rhs[1].typ
         /\ cmpArgs.lhs[1].typ \in {"boolean", "null"})
        => cmpRes = (first(cmpArgs.lhs[1].val) = first(cmpArgs.rhs[1].val))

\* the boolean `true` was compared with itself and found equal
C26_SameSpelling ==
    /\ pc = "filtered"
    /\ cmpArgs = [op |-> "FilterEquality",
                  lhs |-> <<typedValue("boolean", <<"t", "r", "u", "e">>)>>,
                  rhs |-> <<typedValue("boolean", <<"t", "r", "u", "e">>)>>]
    /\ cmpRes

\* C27: comparison is symmetric: for typed values x and y, `x == y` holds
\* iff `y == x` holds, `x < y` iff `y > x` and `x <= y` iff `y >= x`
C27_ComparisonSymmetry ==
    LET mirrored == [FilterEquality |-> "FilterEquality",
                     FilterInequality |-> "FilterInequality",
                     FilterLessThan |-> "FilterGreaterThan",
                     FilterLessThanOrEqual |-> "FilterGreaterThanOrEqual",
                     FilterGreaterThan |-> "FilterLessThan",
                     FilterGreaterThanOrEqual |-> "FilterLessThanOrEqual"]
    IN  (/\ pc = "filtered"
         /\ cmpArgs.op \in DOMAIN mirrored
         /\ Len(cmpArgs.lhs) = 1
         /\ Len(cmpArgs.rhs) = 1)
        => cmpRes = nodeToFilterLoop(mirrored[cmpArgs.op], cmpArgs.rhs, cmpArgs.lhs, 1, 1,
                                     FALSE)

\* the integer 1 was found less than the integer 2
C27_OneLessThanTwo ==
    /\ pc = "filtered"
    /\ cmpArgs = [op |-> "FilterLessThan", lhs |-> <<typedValue("int", <<"1">>)>>,
                  rhs |-> <<typedValue("int", <<"2">>)>>]
    /\ cmpRes

-----------------------------------------------------------------------------
(* Properties of concurrent calls of Find.                                 *)

\* C28: Find writes neither to the compiled Path nor to the documents, so
\* that in every interleaving of calls of Find on one compiled path each call
\* returns, or panics, as the call does when it runs alone
C28_ConcurrentFind ==
    LET alone(p) ==
            /\ compiled.path = p
            /\ \A g \in DOMAIN calls :
                   /\ calls[g].state # "idle" =>
                          calls[g].doc \in {Docs.store, Docs.sequence, Docs.mappingNode}
                   /\ calls[g].state = "returned" =>
                          Find(p, calls[g].doc) = Nodes(calls[g].nodes)
                   /\ calls[g].state = "panicked" =>
                          Find(p, calls[g].doc).outcome = "panic"
    IN  (calls # <<>> /\ pc # "start") => alone(NewPath(input).path)

\* two calls of Find on one compiled path returned nodes of two documents
C28_BothReturned ==
    /\ calls # <<>>
    /\ pc = "compiled"
    /\ calls[1].state = "returned"
    /\ calls[2].state = "returned"
    /\ calls[1].doc # calls[2].doc
    /\ calls[1].nodes # <<>>
    /\ calls[2].nodes # <<>>

-----------------------------------------------------------------------------
(* Properties of the lexer's channel and of its termination.               *)

\* C29: no state function sends more lexemes than the items channel holds
\* before it returns, so that no send blocks and every nextLexeme call made
\* by NewPath returns
C29_NoSendBlocks == pc # "blocked"

\* NewPath drained the lexer of `$.s[0]`, whose last state function sent two
\* lexemes
C29_TwoLexemesSent ==
    /\ pc = "compiled"
    /\ input = <<"$", ".", "s", "[", "0", "]">>
    /\ compiled.err.nil

\* C30: lexing terminates: for every input the lexer reaches the nil state
\* and a call of nextLexeme returns EOF after finitely many lexemes
C30_LexingTerminates == <>(pc = "done" /\ lexer.state = "nil")

\* nextLexeme returned EOF for an expression with a filter, the stack of
\* continuations being empty again
C30_FilterLexed ==
    /\ pc = "done"
    /\ input = <<"$", ".", "s", "[", "?", "(", "@", ".", "a", "=", "=", "1", ")", "]">>
    /\ lexer.state = "nil"
    /\ lexer.stack = <<>>
    /\ lexer.pos = Len(input)

-----------------------------------------------------------------------------
(* Properties of the lexeme stream.                                        *)

\* C31: an Error lexeme terminates lexing: once nextLexeme has returned an
\* Error lexeme the next call returns EOF and leaves the lexer as it is, so
\* that every later call returns EOF and nothing follows the Error lexeme
C31_ErrorTerminates ==
    [][(/\ pc = "lexing"
        /\ Len(lexer.items) > 0
        /\ Head(lexer.items).typ = "Error"
        /\ lexer' = [lexer EXCEPT !.items = Tail(@)])
       => (LET returned(r) == r.lx.typ = "EOF" /\ r.l = lexer'
           IN  returned(nextLexeme(lexer')))]_vars

\* nextLexeme returned the Error lexeme of a subscript that is no integer,
\* sent by validateArrayIndex after the DotChild lexeme
C31_ErrorReturned ==
    /\ pc = "lexing"
    /\ input = <<"$", ".", "s", "[", "x", "]">>
    /\ lexer.items = <<>>
    /\ lexer.state = "nil"
    /\ lexer.start = 3

\* the number of lexemes of type typ among the first k lexemes of ls
CountOf(ls, k, typ) == Cardinality({i \in 1..k : ls[i].typ = typ})

\* no prefix of ls holds more closing than opening lexemes
NeverMoreClosed(ls, opening, closing) ==
    \A k \in 1..Len(ls) : CountOf(ls, k, opening) >= CountOf(ls, k, closing)

\* C32: in a lexeme stream without an Error lexeme, no prefix holds more
\* FilterEnd than FilterBegin lexemes and a stream that reaches EOF holds as
\* many of each, so that NewPath reports "missing end of filter" only for a
\* stream with an Error lexeme
C32_FiltersBalanced ==
    LET errorFree(ls) == \A i \in 1..Len(ls) : ls[i].typ # "Error"
        complete(ls) == ls # <<>> /\ ls[Len(ls)].typ = "EOF"
        checked(ls) ==
            /\ errorFree(ls) => NeverMoreClosed(ls, "FilterBegin", "FilterEnd")
            /\ complete(ls) =>
                   CountOf(ls, Len(ls), "FilterBegin") = CountOf(ls, Len(ls), "FilterEnd")
            /\ (pc = "compiled" /\ compiled.err = errorsNew(<<"missing end of filter">>))
                   => ~errorFree(ls)
    IN  pc # "start" => checked(lexAll(lex(input)))

\* NewPath was given `$.s[?(@.a[?(@.b)])]`, a filter within a filter, whose
\* stream ends with EOF after two FilterBegin and two FilterEnd lexemes
C32_NestedFilterClosed ==
    LET closed(ls) ==
            /\ ls[Len(ls)].typ = "EOF"
            /\ CountOf(ls, Len(ls), "FilterBegin") = 2
            /\ CountOf(ls, Len(ls), "FilterEnd") = 2
    IN  /\ pc # "start"
        /\ input = <<"$", ".", "s", "[", "?", "(", "@", ".", "a", "[", "?", "(", "@", ".",
                     "b", ")", "]", ")", "]">>
        /\ closed(lexAll(lex(input)))

RECURSIVE lexerAfter(_, _)
\* the lexer after n calls of nextLexeme
lexerAfter(l, n) ==
    LET rest(r) == lexerAfter(r.l, n - 1)
    IN  IF n = 0 THEN l ELSE rest(nextLexeme(l))

\* the number of filters open after the first k lexemes of ls
FilterDepth(ls, k) == CountOf(ls, k, "FilterBegin") - CountOf(ls, k, "FilterEnd")

\* the position of the FilterEnd that matches the FilterBegin at position i
MatchingFilterEnd(ls, i) ==
    CHOOSE j \in (i + 1)..Len(ls) :
        /\ FilterDepth(ls, j) = FilterDepth(ls, i) - 1
        /\ \A k \in (i + 1)..(j - 1) : FilterDepth(ls, k) >= FilterDepth(ls, i)

\* C33: when newPath meets a FilterBegin, the lexemes it gathers for the
\* filter parser are exactly those strictly between that FilterBegin and its
\* matching FilterEnd, nested pairs included, and the compilation of the rest
\* of the path starts with the lexeme right after the matching FilterEnd
C33_FilterLexemesGathered ==
    LET complete(ls) == ls # <<>> /\ ls[Len(ls)].typ = "EOF"
        handed(ls, i, j, c) ==
            /\ c.end = "FilterEnd"
            /\ c.lexemes = SubSeq(ls, i + 1, j - 1)
            /\ nextLexeme(c.l).lx = ls[j + 1]
        checked(ls) ==
            complete(ls) =>
                \A i \in 1..Len(ls) :
                    (ls[i].typ = "FilterBegin" /\ FilterDepth(ls, i) = 1) =>
                        handed(ls, i, MatchingFilterEnd(ls, i),
                               collectFilter(lexerAfter(lex(input), i), <<>>, 1))
    IN  pc # "start" => checked(lexAll(lex(input)))

\* NewPath was given `$.s[?(@.a[?(@.b)])].a`: the six lexemes of the outer
\* filter, those of the inner filter among them, were gathered and the
\* compilation went on with the child `.a`
C33_NestedFilterGathered ==
    LET gathered(c) ==
            /\ Len(c.lexemes) = 6
            /\ c.lexemes[3].typ = "FilterBegin"
            /\ c.lexemes[6].typ = "FilterEnd"
            /\ nextLexeme(c.l).lx = Lexeme("DotChild", <<".", "a">>)
    IN  /\ pc # "start"
        /\ input = <<"$", ".", "s", "[", "?", "(", "@", ".", "a", "[", "?", "(", "@", ".",
                     "b", ")", "]", ")", "]", ".", "a">>
        /\ gathered(collectFilter(lexerAfter(lex(input), 3), <<>>, 1))

\* C34: in a lexeme stream without an Error lexeme the FilterOpenBracket and
\* FilterCloseBracket lexemes are balanced: no prefix holds more closing
\* than opening brackets, and a stream that reaches EOF holds as many of each
C34_BracketsBalanced ==
    LET complete(ls) == ls # <<>> /\ ls[Len(ls)].typ = "EOF"
        checked(ls) ==
            complete(ls) =>
                /\ NeverMoreClosed(ls, "FilterOpenBracket", "FilterCloseBracket")
                /\ CountOf(ls, Len(ls), "FilterOpenBracket")
                       = CountOf(ls, Len(ls), "FilterCloseBracket")
    IN  pc # "start" => checked(lexAll(lex(input)))

\* NewPath was given `$.s[?((@.a))]`, whose stream reaches EOF with one
\* opening and one closing bracket
C34_BracketedFilterLexed ==
    LET bracketed(ls) ==
            /\ ls[Len(ls)].typ = "EOF"
            /\ CountOf(ls, Len(ls), "FilterOpenBracket") = 1
            /\ CountOf(ls, Len(ls), "FilterCloseBracket") = 1
    IN  /\ pc # "start"
        /\ input = <<"$", ".", "s", "[", "?", "(", "(", "@", ".", "a", ")", ")", "]">>
        /\ bracketed(lexAll(lex(input)))

\* C35: a filter in which `&&`, `||` or `!` is followed, after optional
\* spaces, by `)`, `)]` or the end of the input is rejected with an Error
\* lexeme: no stream that reaches EOF holds FilterAnd, FilterOr or FilterNot
\* immediately followed by FilterCloseBracket or FilterEnd
C35_OperatorHasOperand ==
    LET complete(ls) == ls # <<>> /\ ls[Len(ls)].typ = "EOF"
        checked(ls) ==
            complete(ls) =>
                \A i \in 1..(Len(ls) - 1) :
                    ls[i].typ \in {"FilterAnd", "FilterOr", "FilterNot"} =>
                        ls[i + 1].typ \notin {"FilterCloseBracket", "FilterEnd"}
    IN  pc # "start" => checked(lexAll(lex(input)))

\* NewPath was given `$.s[?(@.a==1||!@.b)]`, whose stream reaches EOF with
\* FilterOr followed by FilterNot followed by FilterAt
C35_OperatorsWithOperands ==
    LET followed(ls) ==
            /\ ls[Len(ls)].typ = "EOF"
            /\ \E i \in 1..(Len(ls) - 2) :
                   /\ ls[i].typ = "FilterOr"
                   /\ ls[i + 1].typ = "FilterNot"
                   /\ ls[i + 2].typ = "FilterAt"
    IN  /\ pc # "start"
        /\ input = <<"$", ".", "s", "[", "?", "(", "@", ".", "a", "=", "=", "1", "|", "|",
                     "!", "@", ".", "b", ")", "]">>
        /\ followed(lexAll(lex(input)))

====
